---- MODULE Spec2Model ----
(***************************************************************************)
(* The PCD tools of mastra-vivi as a state machine.                        *)
(*                                                                         *)
(*   analyzePCDDocumentFromPDF  (tools/pcd-document-analysis-tool.ts)      *)
(*   evaluatePCDEligibility     (same file, second half)                   *)
(*   generateLaudoCaracterizador (tools/laudo-caracterizador-tool.ts)      *)
(*                                                                         *)
(* The tools hold no state between calls.  The state of the model is the   *)
(* last call: which tool ran, the input it was given and the result it     *)
(* returned.  Texts are TLA+ strings; toLowerCase and includes are         *)
(* computed character by character, so that accents, case and phrases      *)
(* that contain one another behave as they do in the program.              *)
(* Confidence values are kept in tenths (0.8 is 8).                        *)
(***************************************************************************)
EXTENDS Integers, Sequences, FiniteSets, TLC

VARIABLES tool, pc, input, output, cursor, seen

vars == <<tool, pc, input, output, cursor, seen>>

(***************************************************************************)
(* Bounds                                                                  *)
(***************************************************************************)
MaxFindings == 2   \* clinical fragments appended to a base document text
MaxPages == 1      \* page counts reported by the text extraction
MaxDocs == 2       \* structured documents handed to evaluatePCDEligibility

(***************************************************************************)
(* String primitives of the runtime                                        *)
(***************************************************************************)
LowerMap ==
  "A" :> "a" @@ "B" :> "b" @@ "C" :> "c" @@ "D" :> "d" @@ "E" :> "e" @@
  "F" :> "f" @@ "G" :> "g" @@ "H" :> "h" @@ "I" :> "i" @@ "J" :> "j" @@
  "K" :> "k" @@ "L" :> "l" @@ "M" :> "m" @@ "N" :> "n" @@ "O" :> "o" @@
  "P" :> "p" @@ "Q" :> "q" @@ "R" :> "r" @@ "S" :> "s" @@ "T" :> "t" @@
  "U" :> "u" @@ "V" :> "v" @@ "W" :> "w" @@ "X" :> "x" @@ "Y" :> "y" @@
  "Z" :> "z" @@ "Á" :> "á" @@ "À" :> "à" @@ "Â" :> "â" @@ "Ã" :> "ã" @@
  "É" :> "é" @@ "Ê" :> "ê" @@ "Í" :> "í" @@ "Ó" :> "ó" @@ "Ô" :> "ô" @@
  "Õ" :> "õ" @@ "Ú" :> "ú" @@ "Ç" :> "ç"

CharAt(s, i) == SubSeq(s, i, i)

LowerChar(c) == IF c \in DOMAIN LowerMap THEN LowerMap[c] ELSE c

\* the characters lo..hi of s in lower case (halving keeps the recursion shallow)
RECURSIVE LowerBetween(_, _, _)
LowerBetween(s, lo, hi) ==
  IF lo > hi THEN ""
  ELSE IF lo = hi THEN LowerChar(CharAt(s, lo))
  ELSE LET mid == (lo + hi) \div 2
       IN LowerBetween(s, lo, mid) \o LowerBetween(s, mid + 1, hi)

\* String.prototype.toLowerCase
toLowerCase(s) == LowerBetween(s, 1, Len(s))

\* String.prototype.includes
includes(s, p) ==
  \E i \in 1..(Len(s) - Len(p) + 1) : SubSeq(s, i, i + Len(p) - 1) = p

IncludesAny(s, ps) == \E p \in ps : includes(s, p)

Digits == {"0", "1", "2", "3", "4", "5", "6", "7", "8", "9"}
Whitespace == {" ", "\t", "\n"}

IsDigitAt(s, i) == i <= Len(s) /\ CharAt(s, i) \in Digits

\* s.trim() === ''
TrimIsEmpty(s) == \A i \in 1..Len(s) : CharAt(s, i) \in Whitespace

\* /cid-?\d+/.test(s)
CidRegex(s) ==
  \E i \in 1..(Len(s) - 2) :
     /\ SubSeq(s, i, i + 2) = "cid"
     /\ \/ IsDigitAt(s, i + 3)
        \/ (i + 3 <= Len(s) /\ CharAt(s, i + 3) = "-" /\ IsDigitAt(s, i + 4))

RECURSIVE SkipSpaceHyphen(_, _)
SkipSpaceHyphen(s, i) ==
  IF i <= Len(s) /\ CharAt(s, i) \in (Whitespace \cup {"-"})
  THEN SkipSpaceHyphen(s, i + 1)
  ELSE i

\* /crm[\s-]*\d+/.test(s)
CrmRegex(s) ==
  \E i \in 1..(Len(s) - 2) :
     /\ SubSeq(s, i, i + 2) = "crm"
     /\ \E j \in (i + 3)..SkipSpaceHyphen(s, i + 3) : IsDigitAt(s, j)

Range(seq) == {seq[i] : i \in 1..Len(seq)}

NoValue == "undefined"   \* an optional field that is absent

(***************************************************************************)
(* analyzePCDDocumentFromPDF: keyword rules over the lowercased text       *)
(***************************************************************************)

\* Check for CID diagnosis
hasCIDDiagnosis(content) ==
  includes(content, "cid") \/ includes(content, "c.i.d") \/ CidRegex(content)

\* Check for medical signatures
hasValidCRM(content) == includes(content, "crm") \/ CrmRegex(content)

hasProperMedicalSignature(content) ==
  hasValidCRM(content) /\ (includes(content, "dr.") \/ includes(content, "dra."))

\* The five if-statements that detect the deficiency type, in statement order
TypeRuleOrder == <<"FISICA", "INTELECTUAL", "AUDITIVA", "VISUAL", "PSICOSSOCIAL">>

TypeRuleTriggers(t) ==
  CASE t = "FISICA" ->
         {"deficiência física", "deficiencia fisica", "mobilidade reduzida",
          "paraplegia", "amputação", "amputacao"}
    [] t = "INTELECTUAL" ->
         {"deficiência intelectual", "deficiencia intelectual", "retardo mental",
          "transtorno do desenvolvimento"}
    [] t = "AUDITIVA" ->
         {"deficiência auditiva", "deficiencia auditiva", "surdez",
          "perda auditiva", "audiometria"}
    [] t = "VISUAL" ->
         {"deficiência visual", "deficiencia visual", "cegueira", "baixa visão",
          "baixa visao", "acuidade visual"}
    [] t = "PSICOSSOCIAL" ->
         {"transtorno mental", "psicossocial", "esquizofrenia", "bipolar"}

TypeRuleQualifications(t) ==
  CASE t = "FISICA" -> <<"Ortopedia", "Fisiatria">>
    [] t = "INTELECTUAL" -> <<"Neurologia", "Psiquiatria">>
    [] t = "AUDITIVA" -> <<"Otorrinolaringologia", "Fonoaudiologia">>
    [] t = "VISUAL" -> <<"Oftalmologia">>
    [] t = "PSICOSSOCIAL" -> <<"Psiquiatria">>

RuleMatches(t, content) == IncludesAny(content, TypeRuleTriggers(t))

\* detectedDeficiencyType after the five if-statements: each matching
\* statement overwrites the variable
RECURSIVE TypeAfterRulesFrom(_, _, _)
TypeAfterRulesFrom(content, i, acc) ==
  IF i > Len(TypeRuleOrder) THEN acc
  ELSE TypeAfterRulesFrom(content, i + 1,
         IF RuleMatches(TypeRuleOrder[i], content) THEN TypeRuleOrder[i] ELSE acc)

TypeAfterRules(content) == TypeAfterRulesFrom(content, 1, "NAO_IDENTIFICADA")

\* Faulty variant: only the qualifications of the rule that set the type.
issuerQualifications_LastRuleOnly(content) ==
  IF TypeAfterRules(content) = "NAO_IDENTIFICADA" THEN <<>>
  ELSE TypeRuleQualifications(TypeAfterRules(content))

\* issuerQualifications: each matching statement pushes its qualifications
RECURSIVE QualificationsFrom(_, _)
QualificationsFrom(content, i) ==
  IF i > Len(TypeRuleOrder) THEN <<>>
  ELSE (IF RuleMatches(TypeRuleOrder[i], content)
        THEN TypeRuleQualifications(TypeRuleOrder[i]) ELSE <<>>)
       \o QualificationsFrom(content, i + 1)

issuerQualifications(content) == QualificationsFrom(content, 1)

AuditoryGapEntry == "Audiometria ou BERA (obrigatorio para deficiencia auditiva)"
VisualGapEntry ==
  "Exame de acuidade visual e campo visual (obrigatorio para deficiencia visual)"

\* Faulty variant: the gap is raised unless both exams are named.
AuditoryGap_BothExamsRequired(content) ==
  /\ RuleMatches("AUDITIVA", content)
  /\ (~includes(content, "audiometria") \/ ~includes(content, "bera"))

\* Specific check for auditory exams
AuditoryGap(content) ==
  /\ RuleMatches("AUDITIVA", content)
  /\ ~includes(content, "audiometria") /\ ~includes(content, "bera")

\* Specific check for visual exams
VisualGap(content) ==
  /\ RuleMatches("VISUAL", content)
  /\ ~includes(content, "acuidade visual") /\ ~includes(content, "campo visual")

\* the entries pushed to missingDocuments inside the type statements
TypeSpecificGaps(content) ==
  (IF AuditoryGap(content) THEN <<AuditoryGapEntry>> ELSE <<>>)
  \o (IF VisualGap(content) THEN <<VisualGapEntry>> ELSE <<>>)

\* Check for multiple deficiencies
deficiencyKeywords ==
  <<"física", "fisica", "auditiva", "visual", "intelectual", "psicossocial">>

foundDeficiencies(content) ==
  SelectSeq(deficiencyKeywords, LAMBDA kw : includes(content, kw))

detectedDeficiencyType(content) ==
  IF Len(foundDeficiencies(content)) > 1 THEN "MULTIPLA" ELSE TypeAfterRules(content)

\* Check document types present
hasLaudoMedico(content) ==
  includes(content, "laudo médico") \/ includes(content, "laudo medico")
    \/ includes(content, "parecer médico")

hasSpecialistReport(content) ==
  includes(content, "relatório") \/ includes(content, "relatorio")
    \/ includes(content, "especialista") \/ includes(content, "avaliação")

hasComplementaryExams(content) ==
  includes(content, "exame") \/ includes(content, "resultado")
    \/ includes(content, "tomografia")

\* Check for CIF criteria
meetsCIFCriteria(content) ==
  includes(content, "funcionalidade") \/ includes(content, "cif")
    \/ includes(content, "limitação funcional")
    \/ includes(content, "limitacao funcional")

LaudoEntry == "Laudo medico atualizado (obrigatorio)"
CIDEntry == "Diagnostico com codigo CID"
CRMEntry == "Documento com CRM do medico"
CIDUrgencyFlag == "Falta diagnostico com CID - fundamental para avaliacao"
TypeUrgencyFlag == "Tipo de deficiencia nao identificado no documento"
TypeRecommendation == "Identificar tipo especifico de deficiencia nos documentos"

\* Faulty variant: the type-specific entries are appended after the general ones.
missingDocuments_GapsLast(content) ==
  (IF ~hasLaudoMedico(content) THEN <<LaudoEntry>> ELSE <<>>)
  \o (IF ~hasCIDDiagnosis(content) THEN <<CIDEntry>> ELSE <<>>)
  \o (IF ~hasValidCRM(content) THEN <<CRMEntry>> ELSE <<>>)
  \o TypeSpecificGaps(content)

\* Build missing documents list (the type-specific entries were pushed before)
missingDocuments(content) ==
  TypeSpecificGaps(content)
  \o (IF ~hasLaudoMedico(content) THEN <<LaudoEntry>> ELSE <<>>)
  \o (IF ~hasCIDDiagnosis(content) THEN <<CIDEntry>> ELSE <<>>)
  \o (IF ~hasValidCRM(content) THEN <<CRMEntry>> ELSE <<>>)

\* the evidence flags the score is computed from
EvidenceFlags(content) ==
  [hasLaudoMedico |-> hasLaudoMedico(content),
   hasSpecialistReport |-> hasSpecialistReport(content),
   hasCIDDiagnosis |-> hasCIDDiagnosis(content),
   hasProperMedicalSignature |-> hasProperMedicalSignature(content),
   hasValidCRM |-> hasValidCRM(content),
   typeIdentified |-> detectedDeficiencyType(content) # "NAO_IDENTIFICADA",
   meetsCIFCriteria |-> meetsCIFCriteria(content),
   hasComplementaryExams |-> hasComplementaryExams(content)]

\* Faulty variant: the last rubric line assigns instead of adding.
completenessScore_ExamsAssigned(f) ==
  LET s1 == IF f.hasLaudoMedico THEN 20 ELSE 0
      s2 == IF f.hasSpecialistReport THEN s1 + 20 ELSE s1
      s3 == IF f.hasCIDDiagnosis THEN s2 + 10 ELSE s2
      s4 == IF f.hasProperMedicalSignature THEN s3 + 10 ELSE s3
      s5 == IF f.hasValidCRM THEN s4 + 10 ELSE s4
      s6 == IF f.typeIdentified THEN s5 + 15 ELSE s5
      s7 == IF f.meetsCIFCriteria THEN s6 + 5 ELSE s6
  IN IF f.hasComplementaryExams THEN 10 ELSE s7

\* Calculate completeness score
completenessScore(f) ==
  LET s0 == 0
      \* Base documents (40 points)
      s1 == IF f.hasLaudoMedico THEN s0 + 20 ELSE s0
      s2 == IF f.hasSpecialistReport THEN s1 + 20 ELSE s1
      \* Medical information (30 points)
      s3 == IF f.hasCIDDiagnosis THEN s2 + 10 ELSE s2
      s4 == IF f.hasProperMedicalSignature THEN s3 + 10 ELSE s3
      s5 == IF f.hasValidCRM THEN s4 + 10 ELSE s4
      \* Deficiency identification (20 points)
      s6 == IF f.typeIdentified THEN s5 + 15 ELSE s5
      s7 == IF f.meetsCIFCriteria THEN s6 + 5 ELSE s6
      \* Additional documents (10 points)
      s8 == IF f.hasComplementaryExams THEN s7 + 10 ELSE s7
  IN s8

\* Faulty variant: the first threshold is exclusive.
documentQuality_StrictExcellent(score) ==
  IF score > 85 THEN "EXCELENTE"
  ELSE IF score >= 70 THEN "BOA"
  ELSE IF score >= 50 THEN "REGULAR"
  ELSE "INSUFICIENTE"

\* Determine document quality
documentQuality(score) ==
  IF score >= 85 THEN "EXCELENTE"
  ELSE IF score >= 70 THEN "BOA"
  ELSE IF score >= 50 THEN "REGULAR"
  ELSE "INSUFICIENTE"

\* Generate recommendations
recommendations(missing, f, score, detected) ==
  (IF Len(missing) > 0 THEN <<"Solicitar documentos faltantes listados">> ELSE <<>>)
  \o (IF ~f.hasValidCRM
      THEN <<"Verificar assinatura e carimbo medico com CRM valido">> ELSE <<>>)
  \o (IF score < 70
      THEN <<"Documentacao insuficiente - solicitar relatorio medico mais detalhado">>
      ELSE <<>>)
  \o (IF detected = "NAO_IDENTIFICADA" THEN <<TypeRecommendation>> ELSE <<>>)

DiscrepancyFlag(detected, expected) ==
  "Tipo de deficiencia detectada (" \o detected \o ") difere do esperado ("
    \o expected \o ")"

\* Faulty variant: an expected type of DESCONHECIDA is compared like the others.
urgencyFlags_UnknownExpectedCompared(f, detected, expected) ==
  (IF ~f.hasCIDDiagnosis THEN <<CIDUrgencyFlag>> ELSE <<>>)
  \o (IF detected = "NAO_IDENTIFICADA" THEN <<TypeUrgencyFlag>> ELSE <<>>)
  \o (IF /\ expected # NoValue
         /\ detected # expected /\ detected # "NAO_IDENTIFICADA"
      THEN <<DiscrepancyFlag(detected, expected)>> ELSE <<>>)

\* urgencyFlags in push order: missing CID, type not identified, then the
\* check of the expected against the detected type
urgencyFlags(f, detected, expected) ==
  (IF ~f.hasCIDDiagnosis THEN <<CIDUrgencyFlag>> ELSE <<>>)
  \o (IF detected = "NAO_IDENTIFICADA" THEN <<TypeUrgencyFlag>> ELSE <<>>)
  \o (IF /\ expected # NoValue /\ expected # "DESCONHECIDA"
         /\ detected # expected /\ detected # "NAO_IDENTIFICADA"
      THEN <<DiscrepancyFlag(detected, expected)>> ELSE <<>>)

\* the object returned at the end of the try block
AnalysisResult(extractedText, pagesCount, expected) ==
  LET content == toLowerCase(extractedText)
      f == EvidenceFlags(content)
      detected == detectedDeficiencyType(content)
      missing == missingDocuments(content)
      score == completenessScore(f)
      hasRequiredDocuments == f.hasLaudoMedico /\ f.hasCIDDiagnosis
  IN [completenessScore |-> score,
      hasRequiredDocuments |-> hasRequiredDocuments,
      missingDocuments |-> missing,
      documentQuality |-> documentQuality(score),
      extractedContent |->
        [rawText |-> extractedText,
         pagesCount |-> pagesCount,
         characterCount |-> Len(extractedText)],
      medicalDocuments |->
        [hasCurrentMedicalReport |-> f.hasLaudoMedico,
         hasSpecialistReport |-> f.hasSpecialistReport,
         hasComplementaryExams |-> f.hasComplementaryExams,
         hasCIDDiagnosis |-> f.hasCIDDiagnosis,
         issuerQualifications |-> issuerQualifications(content)],
      legalCompliance |->
        [meetsLei13146Requirements |-> hasRequiredDocuments /\ f.hasCIDDiagnosis,
         meetsCIFCriteria |-> f.meetsCIFCriteria,
         hasProperMedicalSignature |-> f.hasProperMedicalSignature,
         hasValidCRM |-> f.hasValidCRM],
      detectedDeficiencyType |-> detected,
      recommendations |-> recommendations(missing, f, score, detected),
      urgencyFlags |-> urgencyFlags(f, detected, expected)]

\* the object returned by the catch block
AnalysisErrorResult(errorMessage) ==
  [completenessScore |-> 0,
   hasRequiredDocuments |-> FALSE,
   missingDocuments |-> <<"Erro na analise: " \o errorMessage>>,
   documentQuality |-> "INSUFICIENTE",
   extractedContent |-> [rawText |-> "", pagesCount |-> 0, characterCount |-> 0],
   medicalDocuments |->
     [hasCurrentMedicalReport |-> FALSE,
      hasSpecialistReport |-> FALSE,
      hasComplementaryExams |-> FALSE,
      hasCIDDiagnosis |-> FALSE,
      issuerQualifications |-> <<>>],
   legalCompliance |->
     [meetsLei13146Requirements |-> FALSE,
      meetsCIFCriteria |-> FALSE,
      hasProperMedicalSignature |-> FALSE,
      hasValidCRM |-> FALSE],
   detectedDeficiencyType |-> "NAO_IDENTIFICADA",
   recommendations |->
     <<"Erro tecnico na analise - reprocessar documentacao ou verificar URL do PDF">>,
   urgencyFlags |->
     <<"Sistema indisponivel ou PDF invalido - analise manual urgente">>]

\* error instanceof Error ? error.message : 'Erro desconhecido'
ErrorMessageOf(thrown) ==
  IF thrown.isError THEN thrown.message ELSE "Erro desconhecido"

\* Faulty variant: a text of whitespace only is analysed like any other text.
analyzeExecute_BlankTextAnalysed(in) ==
  IF in.fetch.kind = "rejects" THEN
    AnalysisErrorResult(ErrorMessageOf(in.fetch.thrown))
  ELSE IF ~in.fetch.ok THEN
    AnalysisErrorResult("Falha ao baixar PDF: " \o in.fetch.status \o " "
                          \o in.fetch.statusText)
  ELSE IF in.extraction.kind = "throws" THEN
    AnalysisErrorResult(ErrorMessageOf(in.extraction.thrown))
  ELSE IF in.extraction.extractedText = "" THEN
    AnalysisErrorResult("Nenhum texto pode ser extraido do PDF")
  ELSE
    AnalysisResult(in.extraction.extractedText, in.extraction.pagesCount,
                   in.expectedDeficiencyType)

\* execute of analyzePCDDocumentFromPDF.  in.fetch is what fetch(pdfUrl) does,
\* in.extraction what extractTextFromPDF does.
analyzeExecute(in) ==
  IF in.fetch.kind = "rejects" THEN
    AnalysisErrorResult(ErrorMessageOf(in.fetch.thrown))
  ELSE IF ~in.fetch.ok THEN
    AnalysisErrorResult("Falha ao baixar PDF: " \o in.fetch.status \o " "
                          \o in.fetch.statusText)
  ELSE IF in.extraction.kind = "throws" THEN
    AnalysisErrorResult(ErrorMessageOf(in.extraction.thrown))
  ELSE IF in.extraction.extractedText = ""
          \/ TrimIsEmpty(in.extraction.extractedText) THEN
    AnalysisErrorResult("Nenhum texto pode ser extraido do PDF")
  ELSE
    AnalysisResult(in.extraction.extractedText, in.extraction.pagesCount,
                   in.expectedDeficiencyType)

(***************************************************************************)
(* evaluatePCDEligibility                                                  *)
(***************************************************************************)
DocumentType ==
  {"LAUDO_MEDICO", "RELATORIO_ESPECIALISTA", "EXAMES_COMPLEMENTARES",
   "ATESTADO_MEDICO", "CIF_ASSESSMENT", "NEUROPSICOLOGICO", "OUTROS"}

\* 1. Analyze documentation completeness
SomeDocOfType(docs, t) == \E i \in 1..Len(docs) : docs[i].type = t

MissingLaudoEntry == "Laudo médico atualizado (menos de 1 ano)"
MissingSpecialistEntry == "Relatório de médico especialista na área da deficiência"

\* Faulty variant: the required documents are only looked for when some
\* document was supplied.
missingDocs_OnlyWhenDocsSupplied(docs) ==
  IF Len(docs) = 0 THEN <<>>
  ELSE (IF ~SomeDocOfType(docs, "LAUDO_MEDICO") THEN <<MissingLaudoEntry>> ELSE <<>>)
       \o (IF ~SomeDocOfType(docs, "RELATORIO_ESPECIALISTA")
           THEN <<MissingSpecialistEntry>> ELSE <<>>)

missingDocs(docs) ==
  (IF ~SomeDocOfType(docs, "LAUDO_MEDICO") THEN <<MissingLaudoEntry>> ELSE <<>>)
  \o (IF ~SomeDocOfType(docs, "RELATORIO_ESPECIALISTA")
      THEN <<MissingSpecialistEntry>> ELSE <<>>)

\* 2. the four if-statements applied to each document, in statement order
EvalRuleOrder == <<"FISICA", "INTELECTUAL", "AUDITIVA", "VISUAL">>

EvalRuleTriggers(t) ==
  CASE t = "FISICA" -> {"deficiência física", "mobilidade"}
    [] t = "INTELECTUAL" -> {"deficiência intelectual", "cognitiv"}
    [] t = "AUDITIVA" -> {"deficiência auditiva", "surdez"}
    [] t = "VISUAL" -> {"deficiência visual", "cegueira"}

EvalRuleFinding(t) ==
  CASE t = "FISICA" -> "Limitações de mobilidade identificadas"
    [] t = "INTELECTUAL" -> "Limitações cognitivas identificadas"
    [] t = "AUDITIVA" -> "Limitações auditivas identificadas"
    [] t = "VISUAL" -> "Limitações visuais identificadas"

EvalRuleMatches(t, content) == IncludesAny(content, EvalRuleTriggers(t))

\* the body of the for loop for one document; acc holds deficiencyType,
\* functionalLimitations and clinicalEvidence
RECURSIVE ScanRulesFrom(_, _, _)
ScanRulesFrom(content, i, acc) ==
  IF i > Len(EvalRuleOrder) THEN acc
  ELSE ScanRulesFrom(content, i + 1,
         IF EvalRuleMatches(EvalRuleOrder[i], content)
         THEN [acc EXCEPT
                 !.deficiencyType = EvalRuleOrder[i],
                 !.functionalLimitations = @ \o <<EvalRuleFinding(EvalRuleOrder[i])>>]
         ELSE acc)

\* Extract clinical evidence
ScanEvidence(content, acc) ==
  [acc EXCEPT !.clinicalEvidence =
     @ \o (IF includes(content, "cid")
           THEN <<"CID identificado na documentação">> ELSE <<>>)
       \o (IF includes(content, "limitação funcional")
           THEN <<"Limitações funcionais documentadas">> ELSE <<>>)]

\* Faulty variant: a type found in an earlier document is kept.
ScanDocument_EarlierTypeKept(doc, acc) ==
  LET content == toLowerCase(doc.content)
      scanned == ScanEvidence(content, ScanRulesFrom(content, 1, acc))
  IN [scanned EXCEPT
        !.deficiencyType = IF acc.deficiencyType # NoValue THEN acc.deficiencyType ELSE @]

ScanDocument(doc, acc) ==
  LET content == toLowerCase(doc.content)
  IN ScanEvidence(content, ScanRulesFrom(content, 1, acc))

\* Analyze each document
RECURSIVE ScanDocumentsFrom(_, _, _)
ScanDocumentsFrom(docs, i, acc) ==
  IF i > Len(docs) THEN acc
  ELSE ScanDocumentsFrom(docs, i + 1, ScanDocument(docs[i], acc))

ScanDocuments(docs) ==
  ScanDocumentsFrom(docs, 1,
    [deficiencyType |-> NoValue,
     functionalLimitations |-> <<>>,
     clinicalEvidence |-> <<>>])

\* Faulty variant: the severity is set as soon as a type is detected, before
\* the outcome is decided.
Decide_SeverityWithType(missing, deficiencyType, functionalLimitations, nDocs) ==
  LET severity == IF deficiencyType # NoValue THEN "MODERADA" ELSE NoValue
  IN IF Len(missing) > 0 THEN
       [outcome |-> "TALVEZ", confidence |-> 3,
        severityLevel |-> severity, requiresPhysicalEvaluation |-> FALSE]
     ELSE IF deficiencyType # NoValue /\ Len(functionalLimitations) > 0 THEN
       [outcome |-> "SIM", confidence |-> 8,
        severityLevel |-> severity, requiresPhysicalEvaluation |-> FALSE]
     ELSE IF nDocs > 0 /\ deficiencyType # NoValue THEN
       [outcome |-> "TALVEZ", confidence |-> 6,
        severityLevel |-> severity, requiresPhysicalEvaluation |-> TRUE]
     ELSE
       [outcome |-> "NAO", confidence |-> 7,
        severityLevel |-> severity, requiresPhysicalEvaluation |-> FALSE]

\* 3. Determine outcome based on Lei 13.146/2015 criteria
Decide(missing, deficiencyType, functionalLimitations, nDocs) ==
  IF Len(missing) > 0 THEN
    [outcome |-> "TALVEZ", confidence |-> 3,
     severityLevel |-> NoValue, requiresPhysicalEvaluation |-> FALSE]
  ELSE IF deficiencyType # NoValue /\ Len(functionalLimitations) > 0 THEN
    [outcome |-> "SIM", confidence |-> 8,
     severityLevel |-> "MODERADA", requiresPhysicalEvaluation |-> FALSE]
  ELSE IF nDocs > 0 /\ deficiencyType # NoValue THEN
    [outcome |-> "TALVEZ", confidence |-> 6,
     severityLevel |-> NoValue, requiresPhysicalEvaluation |-> TRUE]
  ELSE
    [outcome |-> "NAO", confidence |-> 7,
     severityLevel |-> NoValue, requiresPhysicalEvaluation |-> FALSE]

\* Faulty variant: the try block carries the short citations of the catch block.
legalJustification_ShortCitations ==
  [lei13146 |-> "Lei 13.146/2015 - Lei Brasileira de Inclusão",
   cif |-> "Classificação Internacional de Funcionalidade, Incapacidade e Saúde",
   decreto |-> "Decreto 3.298/1999"]

\* 4. Build legal justification
legalJustification ==
  [lei13146 |-> "Art. 2º - Considera-se pessoa com deficiência aquela que tem impedimento de longo prazo de natureza física, mental, intelectual ou sensorial, o qual, em interação com uma ou mais barreiras, pode obstruir sua participação plena e efetiva na sociedade em igualdade de condições com as demais pessoas.",
   cif |-> "Classificação baseada no modelo bio-psico-social da deficiência, considerando funções e estruturas do corpo, atividade e participação social.",
   decreto |-> "Decreto 3.298/1999 e suas atualizações para classificação e avaliação"]

\* 5. Generate technical reasoning
technicalReasoning(d, deficiencyType, missing) ==
  IF d.outcome = "SIM" THEN
    "Baseado na análise da documentação fornecida, identificou-se "
      \o toLowerCase(deficiencyType)
      \o " com limitações funcionais que atendem aos critérios da Lei 13.146/2015. A documentação apresenta evidências clínicas suficientes para caracterizar impedimento de longo prazo que, em interação com barreiras, pode obstruir a participação plena na sociedade."
  ELSE IF d.outcome = "NAO" THEN
    "A documentação analisada não apresenta evidências suficientes de impedimento de longo prazo que atenda aos critérios estabelecidos pela Lei 13.146/2015. As condições apresentadas não caracterizam deficiência nos termos legais vigentes."
  ELSE
    "A documentação fornecida é insuficiente para conclusão definitiva. "
      \o (IF Len(missing) > 0 THEN "Faltam documentos essenciais." ELSE "")
      \o " "
      \o (IF d.requiresPhysicalEvaluation
          THEN "Recomenda-se avaliação física presencial para melhor caracterização."
          ELSE "")

compensatoryFactors ==
  <<"Capacidade adaptativa preservada", "Uso de tecnologia assistiva",
    "Suporte familiar adequado">>

\* the object returned at the end of the try block of evaluatePCDEligibility
EvaluationResult(docs) ==
  LET missing == missingDocs(docs)
      scan == ScanDocuments(docs)
      d == Decide(missing, scan.deficiencyType, scan.functionalLimitations, Len(docs))
  IN [outcome |-> d.outcome,
      confidence |-> d.confidence,
      deficiencyType |-> scan.deficiencyType,
      severityLevel |-> d.severityLevel,
      functionalLimitations |-> scan.functionalLimitations,
      compensatoryFactors |-> compensatoryFactors,
      legalJustification |-> legalJustification,
      clinicalEvidence |-> scan.clinicalEvidence,
      missingDocumentation |-> missing,
      technicalReasoning |-> technicalReasoning(d, scan.deficiencyType, missing),
      requiresPhysicalEvaluation |-> d.requiresPhysicalEvaluation]

\* the legalJustification literals of the catch block
errorLegalJustification ==
  [lei13146 |-> "Lei 13.146/2015 - Lei Brasileira de Inclusão",
   cif |-> "Classificação Internacional de Funcionalidade, Incapacidade e Saúde",
   decreto |-> "Decreto 3.298/1999"]

ManualReviewEntry == "Erro na análise - revisão manual necessária"

\* Faulty variant: the catch block keeps the initial confidence of 0.5.
EvaluationErrorResult_InitialConfidence ==
  [outcome |-> "TALVEZ",
   confidence |-> 5,
   deficiencyType |-> NoValue,
   severityLevel |-> NoValue,
   functionalLimitations |-> <<>>,
   compensatoryFactors |-> <<>>,
   legalJustification |-> errorLegalJustification,
   clinicalEvidence |-> <<>>,
   missingDocumentation |-> <<ManualReviewEntry>>,
   technicalReasoning |->
     "Erro técnico durante a análise. Recomenda-se revisão manual completa da documentação.",
   requiresPhysicalEvaluation |-> TRUE]

\* the object returned by the catch block: it has no deficiencyType and no
\* severityLevel key
EvaluationErrorResult ==
  [outcome |-> "TALVEZ",
   confidence |-> 1,
   deficiencyType |-> NoValue,
   severityLevel |-> NoValue,
   functionalLimitations |-> <<>>,
   compensatoryFactors |-> <<>>,
   legalJustification |-> errorLegalJustification,
   clinicalEvidence |-> <<>>,
   missingDocumentation |-> <<ManualReviewEntry>>,
   technicalReasoning |->
     "Erro técnico durante a análise. Recomenda-se revisão manual completa da documentação.",
   requiresPhysicalEvaluation |-> TRUE]

\* doc.content.toLowerCase() throws a TypeError when an entry reaches the
\* scan without a string content
ScanThrows(docs) == \E i \in 1..Len(docs) : docs[i].content = NoValue

\* execute of evaluatePCDEligibility on documentationProvided: the try block,
\* and the catch block when the scan throws
evaluateExecute(docs) ==
  IF ScanThrows(docs) THEN EvaluationErrorResult ELSE EvaluationResult(docs)

(***************************************************************************)
(* Inputs                                                                  *)
(***************************************************************************)

\* Texts the extraction may return: a base document followed by at most
\* MaxFindings clinical fragments, joined by single spaces.
BaseTexts ==
  <<"",
    "  \n",
    "Atestado",
    "Laudo Médico",
    "Laudo medico - Relatório - CRM 12345 - CID-10 H90",
    "LAUDO MÉDICO - Dra. Souza CRM-SP 12345 - C.I.D. H90 - Avaliação do especialista - Resultado de exame - CIF">>

Findings ==
  <<"surdez", "Deficiência Auditiva", "audiometria", "BERA",
    "cegueira", "Acuidade Visual", "campo visual",
    "paraplegia", "Deficiência Física", "deficiencia fisica", "atividade física",
    "retardo mental", "transtorno bipolar", "psicossocial",
    "Deficiência Auditiva confirmada por audiometria">>

RECURSIVE JoinFrom(_, _, _)
JoinFrom(text, picked, i) ==
  IF i > Len(Findings) THEN text
  ELSE JoinFrom(IF i \in picked
                THEN (IF text = "" THEN Findings[i] ELSE text \o " " \o Findings[i])
                ELSE text,
                picked, i + 1)

Texts ==
  {JoinFrom(BaseTexts[b], picked, 1) :
     b \in 1..Len(BaseTexts),
     picked \in {p \in SUBSET (1..Len(Findings)) : Cardinality(p) <= MaxFindings}}

ExpectedDeficiencyTypes ==
  {"FISICA", "INTELECTUAL", "AUDITIVA", "VISUAL", "MULTIPLA", "PSICOSSOCIAL",
   "DESCONHECIDA"}

NoThrow == [isError |-> FALSE, message |-> ""]

FetchOk == [kind |-> "responds", ok |-> TRUE, status |-> "200", statusText |-> "OK",
            thrown |-> NoThrow]

FetchFailures ==
  {[kind |-> "rejects", ok |-> FALSE, status |-> "", statusText |-> "",
    thrown |-> [isError |-> TRUE, message |-> "fetch failed"]],
   [kind |-> "responds", ok |-> FALSE, status |-> "404", statusText |-> "Not Found",
    thrown |-> NoThrow]}

ExtractionFailures ==
  {[kind |-> "throws", extractedText |-> "", pagesCount |-> 0,
    thrown |-> [isError |-> TRUE, message |-> "Invalid PDF structure"]],
   [kind |-> "throws", extractedText |-> "", pagesCount |-> 0,
    thrown |-> [isError |-> FALSE, message |-> ""]]}

Extractions ==
  {[kind |-> "returns", extractedText |-> t, pagesCount |-> n, thrown |-> NoThrow] :
     t \in Texts, n \in 1..MaxPages}

AnalyzeInputs ==
  {[fetch |-> f, extraction |-> e, expectedDeficiencyType |-> x] :
     f \in FetchFailures,
     e \in {[kind |-> "returns", extractedText |-> "Laudo Médico", pagesCount |-> 1,
             thrown |-> NoThrow]},
     x \in {NoValue}}
  \cup
  {[fetch |-> FetchOk, extraction |-> e, expectedDeficiencyType |-> x] :
     e \in ExtractionFailures \cup Extractions,
     x \in ExpectedDeficiencyTypes \cup {NoValue}}

\* Structured documents handed to evaluatePCDEligibility
DocTypesDrawn ==
  <<"LAUDO_MEDICO", "RELATORIO_ESPECIALISTA", "EXAMES_COMPLEMENTARES",
    "ATESTADO_MEDICO">>

DocContents ==
  <<"",
    "Paciente com SURDEZ bilateral",
    "Deficiência Física com mobilidade reduzida",
    "Cegueira e déficit cognitivo",
    "CID H90 com Limitação Funcional",
    "Deficiência auditiva, CID H90, limitação funcional documentada">>

NumDocs == Len(DocTypesDrawn) * Len(DocContents)

\* the k-th document, k in 0..NumDocs-1
DocAt(k) ==
  [type |-> DocTypesDrawn[(k \div Len(DocContents)) + 1],
   content |-> DocContents[(k % Len(DocContents)) + 1]]

\* the number of document lists of length at most len
RECURSIVE NumListsUpTo(_)
NumListsUpTo(len) == IF len = 0 THEN 1 ELSE 1 + NumDocs * NumListsUpTo(len - 1)

NumDocLists == NumListsUpTo(MaxDocs)

\* the n-th document list, n in 0..NumDocLists-1 (shorter lists first)
RECURSIVE DocListAt(_)
DocListAt(n) ==
  IF n = 0 THEN <<>>
  ELSE <<DocAt((n - 1) % NumDocs)>> \o DocListAt((n - 1) \div NumDocs)

DocLists == {DocListAt(n) : n \in 0..(NumDocLists - 1)}

\* an entry that reaches execute without a content
MalformedDoc == [type |-> "LAUDO_MEDICO", content |-> NoValue]

\* document lists of at most MaxDocs entries, one of them malformed
MalformedDocLists ==
  UNION {{SubSeq(d, 1, k) \o <<MalformedDoc>> \o SubSeq(d, k + 1, Len(d)) :
            k \in 0..Len(d)} :
         d \in {l \in DocLists : Len(l) < MaxDocs}}

\* Evidence-flag assignments the analysis can compute: a proper signature
\* requires a valid CRM
FlagNames ==
  {"hasLaudoMedico", "hasSpecialistReport", "hasCIDDiagnosis",
   "hasProperMedicalSignature", "hasValidCRM", "typeIdentified",
   "meetsCIFCriteria", "hasComplementaryExams"}

FlagAssignments ==
  {f \in [FlagNames -> BOOLEAN] : f.hasProperMedicalSignature => f.hasValidCRM}

(***************************************************************************)
(* The state machine                                                       *)
(***************************************************************************)
\* A call has been made and has not returned: the tool and its input are any
\* of the bounded inputs.
Init ==
  /\ \/ tool = "analyze" /\ input \in AnalyzeInputs
     \/ /\ tool = "evaluate"
        /\ input \in {[documentationProvided |-> d] :
                        d \in DocLists \cup MalformedDocLists}
  /\ pc = "called"
  /\ output = <<>>
  /\ cursor = 0
  /\ seen = {}

\* analyzePCDDocumentFromPDF runs to its return
AnalyzeDocument ==
  /\ tool = "analyze" /\ pc = "called"
  /\ output' = analyzeExecute(input)
  /\ pc' = "returned"
  /\ UNCHANGED <<tool, input, cursor, seen>>

\* evaluatePCDEligibility runs to its return
EvaluateEligibility ==
  /\ tool = "evaluate" /\ pc = "called"
  /\ output' = evaluateExecute(input.documentationProvided)
  /\ pc' = "returned"
  /\ UNCHANGED <<tool, input, cursor, seen>>

Next == AnalyzeDocument \/ EvaluateEligibility

Spec == Init /\ [][Next]_vars

\* The scoring block of the analysis on its own: the flags start at any
\* assignment and one more flag becomes true in each step.
ScoreOf(f) ==
  [completenessScore |-> completenessScore(f),
   documentQuality |-> documentQuality(completenessScore(f))]

InitScore ==
  /\ tool = "score"
  /\ pc = "returned"
  /\ input \in FlagAssignments
  /\ output = ScoreOf(input)
  /\ cursor = 0
  /\ seen = {}

RaiseFlag ==
  \E k \in FlagNames :
     /\ ~input[k]
     /\ [input EXCEPT ![k] = TRUE] \in FlagAssignments
     /\ input' = [input EXCEPT ![k] = TRUE]
     /\ output' = ScoreOf(input')
     /\ UNCHANGED <<tool, pc, cursor, seen>>

NextScore == RaiseFlag

SpecScore == InitScore /\ [][NextScore]_vars

\* Every document list within the bounds evaluated once, in the order of
\* DocListAt; seen collects the (outcome, confidence, requiresPhysicalEvaluation)
\* triples returned so far.
InitSweep ==
  /\ tool = "evaluate"
  /\ pc = "called"
  /\ input = [documentationProvided |-> <<>>]
  /\ output = <<>>
  /\ cursor = 0
  /\ seen = {}

SweepStep ==
  /\ cursor < NumDocLists
  /\ LET docs == DocListAt(cursor)
         result == evaluateExecute(docs)
     IN /\ tool' = "evaluate"
        /\ input' = [documentationProvided |-> docs]
        /\ output' = result
        /\ seen' = seen \cup
             {<<result.outcome, result.confidence, result.requiresPhysicalEvaluation>>}
  /\ cursor' = cursor + 1
  /\ pc' = "returned"
  /\ UNCHANGED tool

NextSweep == SweepStep

SpecSweep == InitSweep /\ [][NextSweep]_vars

(***************************************************************************)
(* Properties of evaluatePCDEligibility                                    *)
(***************************************************************************)
EvaluationReturned == tool = "evaluate" /\ pc = "returned"

HasBothRequiredDocs(docs) ==
  SomeDocOfType(docs, "LAUDO_MEDICO") /\ SomeDocOfType(docs, "RELATORIO_ESPECIALISTA")

\* some entry's content matches a trigger phrase of one of the type rules
SomeTypePhrase(docs) ==
  \E i \in 1..Len(docs) : \E t \in Range(EvalRuleOrder) :
     EvalRuleMatches(t, toLowerCase(docs[i].content))

SomeLimitationPhrase(docs) ==
  \E i \in 1..Len(docs) : includes(toLowerCase(docs[i].content), "limitação funcional")

BranchSeen(outcome, confidence) ==
  \E r \in seen : r[1] = outcome /\ r[2] = confidence

\* C1: once every document list has been evaluated, each of the four rows
\* of the decision table has been returned at least once: (TALVEZ, 0.3),
\* (SIM, 0.8), (TALVEZ, 0.6, requiresPhysicalEvaluation) and (NAO, 0.7).
C1_EveryBranchReached ==
  cursor = NumDocLists =>
    /\ BranchSeen("TALVEZ", 3)
    /\ BranchSeen("SIM", 8)
    /\ <<"TALVEZ", 6, TRUE>> \in seen
    /\ BranchSeen("NAO", 7)

\* C2 as stated: an empty documentationProvided list is rejected (NAO, 0.7)
\* with empty functionalLimitations and clinicalEvidence.
C2_EmptyListRejected ==
  (EvaluationReturned /\ input.documentationProvided = <<>>) =>
    /\ output.outcome = "NAO"
    /\ output.confidence = 7
    /\ output.functionalLimitations = <<>>
    /\ output.clinicalEvidence = <<>>

\* C2 amended: an empty documentationProvided list yields TALVEZ with
\* confidence 0.3, both required documents listed as missing, and empty
\* functionalLimitations and clinicalEvidence.
C2_EmptyListIndeterminate ==
  (EvaluationReturned /\ input.documentationProvided = <<>>) =>
    /\ output.outcome = "TALVEZ"
    /\ output.confidence = 3
    /\ output.missingDocumentation = <<MissingLaudoEntry, MissingSpecialistEntry>>
    /\ output.functionalLimitations = <<>>
    /\ output.clinicalEvidence = <<>>

C2_Witness ==
  /\ EvaluationReturned
  /\ input.documentationProvided = <<>>
  /\ output.outcome = "TALVEZ"

\* C3: a list with both a LAUDO_MEDICO and a RELATORIO_ESPECIALISTA, a
\* deficiency-type phrase in some content and the phrase 'limitação
\* funcional' in none yields TALVEZ, confidence 0.6 and
\* requiresPhysicalEvaluation.
C3_TypeWithoutLimitationPhrase ==
  (/\ EvaluationReturned
   /\ HasBothRequiredDocs(input.documentationProvided)
   /\ SomeTypePhrase(input.documentationProvided)
   /\ ~SomeLimitationPhrase(input.documentationProvided)) =>
    /\ output.outcome = "TALVEZ"
    /\ output.confidence = 6
    /\ output.requiresPhysicalEvaluation

\* C4: with both required documents and a detected type (which carries at
\* least one finding) the result is SIM, 0.8, MODERADA; a result that is not
\* SIM has no severityLevel.  A type is detected when the scan of the list
\* completes and some content matches a type phrase.
C4_ConfirmedIsModerate ==
  EvaluationReturned =>
    /\ (/\ HasBothRequiredDocs(input.documentationProvided)
        /\ ~ScanThrows(input.documentationProvided)
        /\ SomeTypePhrase(input.documentationProvided)) =>
          /\ output.deficiencyType # NoValue
          /\ Len(output.functionalLimitations) >= 1
          /\ output.outcome = "SIM"
          /\ output.confidence = 8
          /\ output.severityLevel = "MODERADA"
    /\ output.outcome # "SIM" => output.severityLevel = NoValue

C4_Witness ==
  /\ EvaluationReturned
  /\ HasBothRequiredDocs(input.documentationProvided)
  /\ SomeTypePhrase(input.documentationProvided)
  /\ output.outcome = "SIM"
  /\ output.severityLevel = "MODERADA"

(***************************************************************************)
(* Properties of the completeness score                                    *)
(***************************************************************************)
Points(flag, n) == IF flag THEN n ELSE 0

\* the rubric: 20, 20, 10, 10, 10, 15, 5, 10
RubricSum(f) ==
  Points(f.hasLaudoMedico, 20) + Points(f.hasSpecialistReport, 20)
    + Points(f.hasCIDDiagnosis, 10) + Points(f.hasProperMedicalSignature, 10)
    + Points(f.hasValidCRM, 10) + Points(f.typeIdentified, 15)
    + Points(f.meetsCIFCriteria, 5) + Points(f.hasComplementaryExams, 10)

\* C5: the score is the sum of the rubric points of the flags that hold, lies
\* in 0..100, and the quality is EXCELENTE iff score >= 85, BOA iff
\* 70 <= score < 85, REGULAR iff 50 <= score < 70, INSUFICIENTE iff score < 50.
C5_ScoreAndQuality ==
  tool = "score" =>
    LET score == output.completenessScore
        quality == output.documentQuality
    IN /\ score = RubricSum(input)
       /\ score \in 0..100
       /\ quality = "EXCELENTE" <=> score >= 85
       /\ quality = "BOA" <=> (70 <= score /\ score < 85)
       /\ quality = "REGULAR" <=> (50 <= score /\ score < 70)
       /\ quality = "INSUFICIENTE" <=> score < 50

C5_Witness ==
  /\ tool = "score"
  /\ output.completenessScore = 85
  /\ output.documentQuality = "EXCELENTE"

\* C6: making one more evidence flag true, the others unchanged, never
\* lowers the score.
C6_ScoreMonotone ==
  [][RaiseFlag => output'.completenessScore >= output.completenessScore]_vars

C6_Witness ==
  /\ tool = "score"
  /\ input.hasComplementaryExams
  /\ input.hasLaudoMedico
  /\ output.completenessScore >= 30

(***************************************************************************)
(* Properties of analyzePCDDocumentFromPDF                                 *)
(***************************************************************************)
\* the call returned from the end of the try block
AnalysisSucceeded ==
  /\ tool = "analyze" /\ pc = "returned"
  /\ input.fetch.kind = "responds" /\ input.fetch.ok
  /\ input.extraction.kind = "returns"
  /\ ~TrimIsEmpty(input.extraction.extractedText)

LoweredText == toLowerCase(input.extraction.extractedText)

\* positions in TypeRuleOrder of the rules with a trigger phrase in the text
MatchedRules(content) ==
  {i \in 1..Len(TypeRuleOrder) : RuleMatches(TypeRuleOrder[i], content)}

LastMatchedRule(content) ==
  TypeRuleOrder[CHOOSE i \in MatchedRules(content) :
                  \A j \in MatchedRules(content) : j <= i]

\* C7: the detected type is MULTIPLA exactly when at least two of the five
\* type rules match the lowercased text, and with exactly one matching rule
\* it is that rule's type.
C7_MultiplaIffTwoRules ==
  AnalysisSucceeded =>
    LET matched == MatchedRules(LoweredText)
    IN /\ output.detectedDeficiencyType = "MULTIPLA" <=> Cardinality(matched) >= 2
       /\ Cardinality(matched) = 1 =>
            output.detectedDeficiencyType = LastMatchedRule(LoweredText)

\* C8: when no type rule matches the lowercased text, the type is
\* NAO_IDENTIFICADA, the 15 points are not awarded, and the recommendation
\* and the urgency flag for an unidentified type are emitted.
C8_NoRuleUnidentified ==
  (AnalysisSucceeded /\ MatchedRules(LoweredText) = {}) =>
    /\ output.detectedDeficiencyType = "NAO_IDENTIFICADA"
    /\ output.completenessScore =
         RubricSum([EvidenceFlags(LoweredText) EXCEPT !.typeIdentified = FALSE])
    /\ TypeRecommendation \in Range(output.recommendations)
    /\ TypeUrgencyFlag \in Range(output.urgencyFlags)

GapEntries == {AuditoryGapEntry, VisualGapEntry}

\* the type-specific entries of a missingDocuments list, in list order
GapEntriesOf(missing) == SelectSeq(missing, LAMBDA e : e \in GapEntries)

QualificationsIfMatched(t, content) ==
  IF RuleMatches(t, content) THEN TypeRuleQualifications(t) ELSE <<>>

GapIfMatched(t, content) ==
  IF t = "AUDITIVA" /\ RuleMatches(t, content)
       /\ ~includes(content, "audiometria") /\ ~includes(content, "bera")
  THEN <<AuditoryGapEntry>>
  ELSE IF t = "VISUAL" /\ RuleMatches(t, content)
            /\ ~includes(content, "acuidade visual")
            /\ ~includes(content, "campo visual")
  THEN <<VisualGapEntry>>
  ELSE <<>>

\* C9 as stated: with more than one matching rule, the qualifications and
\* the type-specific gaps are those of the last matching rule only.
C9_LastRuleOnly ==
  (AnalysisSucceeded /\ Cardinality(MatchedRules(LoweredText)) >= 2) =>
    LET last == LastMatchedRule(LoweredText)
    IN /\ output.medicalDocuments.issuerQualifications = TypeRuleQualifications(last)
       /\ GapEntriesOf(output.missingDocuments) = GapIfMatched(last, LoweredText)

\* C9 amended: with more than one matching rule, the qualifications are
\* those of every matching rule, concatenated in rule order, and the
\* type-specific gaps are those of every matching rule that has one.
C9_EveryMatchingRule ==
  (AnalysisSucceeded /\ Cardinality(MatchedRules(LoweredText)) >= 2) =>
    /\ output.medicalDocuments.issuerQualifications =
         QualificationsIfMatched("FISICA", LoweredText)
           \o QualificationsIfMatched("INTELECTUAL", LoweredText)
           \o QualificationsIfMatched("AUDITIVA", LoweredText)
           \o QualificationsIfMatched("VISUAL", LoweredText)
           \o QualificationsIfMatched("PSICOSSOCIAL", LoweredText)
    /\ GapEntriesOf(output.missingDocuments) =
         GapIfMatched("AUDITIVA", LoweredText) \o GapIfMatched("VISUAL", LoweredText)

C9_Witness ==
  /\ AnalysisSucceeded
  /\ MatchedRules(LoweredText) = {3, 4}
  /\ output.medicalDocuments.issuerQualifications =
       <<"Otorrinolaringologia", "Fonoaudiologia", "Oftalmologia">>
  /\ GapEntriesOf(output.missingDocuments) = <<AuditoryGapEntry, VisualGapEntry>>

\* seq lists some of the entries of order, each at most once, in the order
\* they have in order
ListedInOrder(seq, order) ==
  /\ Range(seq) \subseteq Range(order)
  /\ \A i, j \in 1..Len(seq) :
        i < j => (CHOOSE k \in 1..Len(order) : order[k] = seq[i])
                   < (CHOOSE k \in 1..Len(order) : order[k] = seq[j])

GeneralEntriesPresent ==
  /\ LaudoEntry \in Range(output.missingDocuments)
       <=> ~output.medicalDocuments.hasCurrentMedicalReport
  /\ CIDEntry \in Range(output.missingDocuments)
       <=> ~output.medicalDocuments.hasCIDDiagnosis
  /\ CRMEntry \in Range(output.missingDocuments)
       <=> ~output.legalCompliance.hasValidCRM

\* C10 as stated: missingDocuments lists the medical-report entry, then the
\* CID entry, then the CRM entry, and the type-specific gaps after them.
C10_GapsAfterGeneralEntries ==
  AnalysisSucceeded =>
    /\ GeneralEntriesPresent
    /\ ListedInOrder(output.missingDocuments,
         <<LaudoEntry, CIDEntry, CRMEntry, AuditoryGapEntry, VisualGapEntry>>)

\* C10 amended: missingDocuments lists the type-specific gaps first
\* (auditory, then visual), then the medical-report entry, the CID entry and
\* the CRM entry.
C10_GapsBeforeGeneralEntries ==
  AnalysisSucceeded =>
    /\ GeneralEntriesPresent
    /\ ListedInOrder(output.missingDocuments,
         <<AuditoryGapEntry, VisualGapEntry, LaudoEntry, CIDEntry, CRMEntry>>)

C10_Witness ==
  /\ AnalysisSucceeded
  /\ Len(output.missingDocuments) = 5
  /\ output.missingDocuments[1] = AuditoryGapEntry
  /\ output.missingDocuments[3] = LaudoEntry

\* the urgency flags that report a detected type differing from the expected
IsDiscrepancyFlag(flag) ==
  /\ Len(flag) >= 31
  /\ SubSeq(flag, 1, 31) = "Tipo de deficiencia detectada ("

DiscrepancyFlagsOf(flags) == SelectSeq(flags, IsDiscrepancyFlag)

\* the flag names the detected and the expected type, each between brackets
NamesBoth(flag, detected, expected) ==
  /\ includes(flag, "(" \o detected \o ")")
  /\ includes(flag, "(" \o expected \o ")")

\* C11 as stated: for each of the seven values of expectedDeficiencyType,
\* when it differs from the detected type and the detected type is not
\* NAO_IDENTIFICADA, urgencyFlags holds exactly one discrepancy flag, naming
\* both types; when the two are equal or the detected type is
\* NAO_IDENTIFICADA there is none.
C11_AnyExpectedValueFlagged ==
  (AnalysisSucceeded /\ input.expectedDeficiencyType \in ExpectedDeficiencyTypes) =>
    LET detected == output.detectedDeficiencyType
        expected == input.expectedDeficiencyType
        flagged == DiscrepancyFlagsOf(output.urgencyFlags)
    IN IF detected # expected /\ detected # "NAO_IDENTIFICADA"
       THEN Len(flagged) = 1 /\ NamesBoth(flagged[1], detected, expected)
       ELSE flagged = <<>>

\* C11 amended: the comparison is made for the six deficiency types only.
\* An expected type other than DESCONHECIDA that differs from a detected
\* type other than NAO_IDENTIFICADA gives exactly one discrepancy flag naming
\* both; an expected type that is DESCONHECIDA or not supplied, equal types,
\* or a detected type NAO_IDENTIFICADA give no discrepancy flag.
C11_KnownExpectedValueFlagged ==
  AnalysisSucceeded =>
    LET detected == output.detectedDeficiencyType
        expected == input.expectedDeficiencyType
        flagged == DiscrepancyFlagsOf(output.urgencyFlags)
    IN IF /\ expected \in ExpectedDeficiencyTypes \ {"DESCONHECIDA"}
          /\ detected # expected /\ detected # "NAO_IDENTIFICADA"
       THEN Len(flagged) = 1 /\ NamesBoth(flagged[1], detected, expected)
       ELSE flagged = <<>>

C11_Witness ==
  /\ AnalysisSucceeded
  /\ input.expectedDeficiencyType = "VISUAL"
  /\ output.detectedDeficiencyType = "AUDITIVA"
  /\ DiscrepancyFlagsOf(output.urgencyFlags)
       = <<"Tipo de deficiencia detectada (AUDITIVA) difere do esperado (VISUAL)">>

\* the type-specific gap entries are listed exactly when their rule matched
\* and neither of its two exam phrases occurs in the text
TypeGapsWhenExamsUnnamed ==
  /\ AuditoryGapEntry \in Range(output.missingDocuments)
       <=> /\ RuleMatches("AUDITIVA", LoweredText)
           /\ ~includes(LoweredText, "audiometria")
           /\ ~includes(LoweredText, "bera")
  /\ VisualGapEntry \in Range(output.missingDocuments)
       <=> /\ RuleMatches("VISUAL", LoweredText)
           /\ ~includes(LoweredText, "acuidade visual")
           /\ ~includes(LoweredText, "campo visual")

\* the text names an auditory deficiency and an audiometry, and has no CID marker
AuditoryScenario ==
  /\ AnalysisSucceeded
  /\ includes(LoweredText, "deficiência auditiva")
  /\ includes(LoweredText, "audiometria")
  /\ ~includes(LoweredText, "cid") /\ ~includes(LoweredText, "c.i.d")
  /\ ~CidRegex(LoweredText)

\* no auditory gap, the CID entry among the missing documents, and exactly
\* one urgency flag for the missing CID
AuditoryScenarioGapsAndFlags ==
  /\ AuditoryGapEntry \notin Range(output.missingDocuments)
  /\ CIDEntry \in Range(output.missingDocuments)
  /\ Len(SelectSeq(output.urgencyFlags, LAMBDA flag : flag = CIDUrgencyFlag)) = 1

AnalysisFailed ==
  /\ tool = "analyze" /\ pc = "returned"
  /\ \/ input.fetch.kind = "rejects"
     \/ ~input.fetch.ok
     \/ input.extraction.kind = "throws"
     \/ input.extraction.extractedText = ""
     \/ \A i \in 1..Len(input.extraction.extractedText) :
          CharAt(input.extraction.extractedText, i) \in Whitespace

\* C13: when the fetch fails or answers non-OK, the extraction throws, or
\* the extracted text is empty or only whitespace, the analysis still returns
\* a result: completenessScore 0, documentQuality INSUFICIENTE, type
\* NAO_IDENTIFICADA, every evidence boolean false, extractedContent empty
\* with characterCount 0, and urgencyFlags non-empty.
C13_FailureGivesEmptyAnalysis ==
  AnalysisFailed =>
    /\ output.completenessScore = 0
    /\ output.documentQuality = "INSUFICIENTE"
    /\ output.detectedDeficiencyType = "NAO_IDENTIFICADA"
    /\ ~output.hasRequiredDocuments
    /\ \A k \in DOMAIN output.medicalDocuments :
         k # "issuerQualifications" => ~output.medicalDocuments[k]
    /\ \A k \in DOMAIN output.legalCompliance : ~output.legalCompliance[k]
    /\ output.extractedContent.rawText = ""
    /\ output.extractedContent.characterCount = 0
    /\ output.urgencyFlags # <<>>

C13_Witness ==
  /\ AnalysisFailed
  /\ input.fetch.ok
  /\ input.extraction.kind = "returns"
  /\ input.extraction.extractedText = "  \n"
  /\ output.missingDocuments
       = <<"Erro na analise: Nenhum texto pode ser extraido do PDF">>

(***************************************************************************)
(* Failure handling of evaluatePCDEligibility                              *)
(***************************************************************************)
\* an exception was raised inside the try block
EvaluationThrew ==
  /\ EvaluationReturned
  /\ \E i \in 1..Len(input.documentationProvided) :
       input.documentationProvided[i].content = NoValue

\* C14: when an exception is raised while the assessment is computed, the
\* tool still returns: outcome TALVEZ, confidence 0.1, empty
\* functionalLimitations, compensatoryFactors and clinicalEvidence,
\* requiresPhysicalEvaluation true, no deficiencyType and no severityLevel,
\* and missingDocumentation holding exactly the manual-review entry.
C14_ExceptionGivesDegradedAssessment ==
  EvaluationThrew =>
    /\ output.outcome = "TALVEZ"
    /\ output.confidence = 1
    /\ output.functionalLimitations = <<>>
    /\ output.compensatoryFactors = <<>>
    /\ output.clinicalEvidence = <<>>
    /\ output.requiresPhysicalEvaluation
    /\ output.deficiencyType = NoValue
    /\ output.severityLevel = NoValue
    /\ output.missingDocumentation = <<"Erro na análise - revisão manual necessária">>

C14_Witness ==
  /\ EvaluationThrew
  /\ Len(input.documentationProvided) = 2
  /\ input.documentationProvided[1].content = "Paciente com SURDEZ bilateral"
  /\ output.outcome = "TALVEZ"
  /\ output.confidence = 1

\* the three citations written in the try block
FullCitations ==
  [lei13146 |-> "Art. 2º - Considera-se pessoa com deficiência aquela que tem impedimento de longo prazo de natureza física, mental, intelectual ou sensorial, o qual, em interação com uma ou mais barreiras, pode obstruir sua participação plena e efetiva na sociedade em igualdade de condições com as demais pessoas.",
   cif |-> "Classificação baseada no modelo bio-psico-social da deficiência, considerando funções e estruturas do corpo, atividade e participação social.",
   decreto |-> "Decreto 3.298/1999 e suas atualizações para classificação e avaliação"]

\* C15 as stated: every assessment, the degraded one after an internal error
\* included, carries the same three legalJustification strings.
C15_SameCitationsInEveryAssessment ==
  EvaluationReturned => output.legalJustification = FullCitations

\* C15 amended: every assessment computed without an internal error carries
\* the same three legalJustification strings, whichever its outcome; the
\* degraded assessment carries three other, shorter, fixed strings.
C15_SameCitationsUnlessDegraded ==
  /\ (EvaluationReturned /\ ~EvaluationThrew) =>
       output.legalJustification = FullCitations
  /\ EvaluationThrew =>
       output.legalJustification =
         [lei13146 |-> "Lei 13.146/2015 - Lei Brasileira de Inclusão",
          cif |-> "Classificação Internacional de Funcionalidade, Incapacidade e Saúde",
          decreto |-> "Decreto 3.298/1999"]

C15_Witness ==
  /\ EvaluationReturned /\ ~EvaluationThrew
  /\ output.outcome = "NAO"
  /\ output.legalJustification.decreto
       = "Decreto 3.298/1999 e suas atualizações para classificação e avaliação"

(***************************************************************************)
(* generateLaudoCaracterizador  (tools/laudo-caracterizador-tool.ts)       *)
(*                                                                         *)
(* The clock is part of the input of a call: the instants that the         *)
(* successive reads of Date.now() and new Date() return.  An instant       *)
(* carries its epoch milliseconds as a decimal string (they do not fit a   *)
(* 32-bit integer) and its local calendar fields.                          *)
(***************************************************************************)

\* the digits of s[lo..hi], in order
RECURSIVE DigitsBetween(_, _, _)
DigitsBetween(s, lo, hi) ==
  IF lo > hi THEN ""
  ELSE IF lo = hi THEN (IF CharAt(s, lo) \in Digits THEN CharAt(s, lo) ELSE "")
  ELSE LET mid == (lo + hi) \div 2
       IN DigitsBetween(s, lo, mid) \o DigitsBetween(s, mid + 1, hi)

\* s.replace(/[^\d]/g, '')
DigitsOnly(s) == DigitsBetween(s, 1, Len(s))

\* a number in a template literal
RECURSIVE NatToString(_)
NatToString(n) ==
  IF n < 10 THEN CharAt("0123456789", n + 1)
  ELSE NatToString(n \div 10) \o CharAt("0123456789", (n % 10) + 1)

\* two-digit fields of the pt-BR date and time formats
Pad2(n) == IF n < 10 THEN "0" \o NatToString(n) ELSE NatToString(n)

\* Date.prototype.toLocaleDateString('pt-BR'): dd/mm/yyyy
toLocaleDateString(t) ==
  Pad2(t.day) \o "/" \o Pad2(t.month) \o "/" \o NatToString(t.year)

\* Date.prototype.toLocaleString('pt-BR'): dd/mm/yyyy, hh:mm:ss
toLocaleString(t) ==
  toLocaleDateString(t) \o ", " \o Pad2(t.hour) \o ":" \o Pad2(t.minute)
    \o ":" \o Pad2(t.second)

IsLeapYear(y) == (y % 4 = 0 /\ y % 100 # 0) \/ y % 400 = 0

DaysInMonth(m, y) ==
  IF m = 2 THEN (IF IsLeapYear(y) THEN 29 ELSE 28)
  ELSE IF m \in {4, 6, 9, 11} THEN 30 ELSE 31

\* Faulty variant: a day that the month does not have in year y becomes the
\* last day of the month.
setFullYear_ClampToMonthEnd(t, y) ==
  IF t.day > DaysInMonth(t.month, y)
  THEN [t EXCEPT !.year = y, !.day = DaysInMonth(t.month, y)]
  ELSE [t EXCEPT !.year = y]

\* Date.prototype.setFullYear(y): a day that the month does not have in
\* year y rolls over into the next month
setFullYear(t, y) ==
  IF t.day > DaysInMonth(t.month, y)
  THEN [t EXCEPT !.year = y, !.month = t.month + 1,
                 !.day = t.day - DaysInMonth(t.month, y)]
  ELSE [t EXCEPT !.year = y]

\* the printable ASCII characters of codes 32..95 and of codes 97..126
AsciiLow ==
  " !\"#$%&'()*+,-./0123456789:;<=>?@ABCDEFGHIJKLMNOPQRSTUVWXYZ[\\]^_"

AsciiHigh == "abcdefghijklmnopqrstuvwxyz{|}~"

IndexIn(table, c) == CHOOSE i \in 1..Len(table) : CharAt(table, i) = c

\* the byte Buffer.from(s) holds for an ASCII character
CharCode(c) ==
  IF \E i \in 1..Len(AsciiLow) : CharAt(AsciiLow, i) = c
  THEN 31 + IndexIn(AsciiLow, c)
  ELSE 96 + IndexIn(AsciiHigh, c)

Base64Alphabet ==
  "ABCDEFGHIJKLMNOPQRSTUVWXYZabcdefghijklmnopqrstuvwxyz0123456789+/"

Base64Char(n) == CharAt(Base64Alphabet, n + 1)

\* the four characters that encode the bytes s[i..i+2], padded with '='
\* when the string ends before i+2
Base64Group(s, i) ==
  LET b1 == CharCode(CharAt(s, i))
      b2 == IF i + 1 <= Len(s) THEN CharCode(CharAt(s, i + 1)) ELSE 0
      b3 == IF i + 2 <= Len(s) THEN CharCode(CharAt(s, i + 2)) ELSE 0
      n == b1 * 65536 + b2 * 256 + b3
  IN Base64Char(n \div 262144) \o Base64Char((n \div 4096) % 64)
       \o (IF i + 1 <= Len(s) THEN Base64Char((n \div 64) % 64) ELSE "=")
       \o (IF i + 2 <= Len(s) THEN Base64Char(n % 64) ELSE "=")

RECURSIVE Base64From(_, _)
Base64From(s, i) ==
  IF i > Len(s) THEN "" ELSE Base64Group(s, i) \o Base64From(s, i + 3)

\* Buffer.from(s).toString('base64')
Base64(s) == Base64From(s, 1)

\* String.prototype.substring(0, n)
Substring0(s, n) == SubSeq(s, 1, IF n < Len(s) THEN n ELSE Len(s))

\* String.prototype.trim
RECURSIVE TrimStartFrom(_, _)
TrimStartFrom(s, i) ==
  IF i <= Len(s) /\ CharAt(s, i) \in Whitespace THEN TrimStartFrom(s, i + 1) ELSE i

RECURSIVE TrimEndFrom(_, _)
TrimEndFrom(s, j) ==
  IF j >= 1 /\ CharAt(s, j) \in Whitespace THEN TrimEndFrom(s, j - 1) ELSE j

trim(s) == SubSeq(s, TrimStartFrom(s, 1), TrimEndFrom(s, Len(s)))

\* Array.prototype.map(x => `- ${x}`).join('\n')
RECURSIVE BulletsFrom(_, _)
BulletsFrom(items, i) ==
  IF i > Len(items) THEN ""
  ELSE "- " \o items[i]
         \o (IF i < Len(items) THEN "\n" ELSE "") \o BulletsFrom(items, i + 1)

Bullets(items) == BulletsFrom(items, 1)

\* Array.prototype.join('\n') of the lines of the template
RECURSIVE JoinLinesFrom(_, _)
JoinLinesFrom(lines, i) ==
  IF i > Len(lines) THEN ""
  ELSE lines[i] \o (IF i < Len(lines) THEN "\n" ELSE "") \o JoinLinesFrom(lines, i + 1)

JoinLines(lines) == JoinLinesFrom(lines, 1)

\* a value that the conditional (v ? a : b) takes as true
Truthy(v) == v # NoValue /\ v # ""

\* ${v ? `label${v}` : ''} on a line of its own
OptionalLine(label, v) == IF Truthy(v) THEN label \o v ELSE ""

\* the placeholder of lines 126-133: a block of its own lines when the list
\* has entries, the empty string otherwise
AssistiveTechnologyBlock(assistiveTechnology) ==
  IF Len(assistiveTechnology) > 0
  THEN "\nTecnologias Assistivas:\n" \o Bullets(assistiveTechnology) \o "\n"
  ELSE ""

\* Faulty variant: the decree is cited before the law.
LegalBasisLines_DecreeFirst(legalBasis) ==
  << IF legalBasis.decreto3298
     THEN "- Decreto no 3.298/1999 (Regulamenta a Lei no 7.853/1989)" ELSE "",
     IF legalBasis.lei13146
     THEN "- Lei no 13.146/2015 (Lei Brasileira de Inclusao da Pessoa com Deficiencia)"
     ELSE "",
     IF legalBasis.cif
     THEN "- Classificacao Internacional de Funcionalidade, Incapacidade e Saude (CIF/OMS)"
     ELSE "",
     IF legalBasis.otherLaws.isList /\ Len(legalBasis.otherLaws.items) > 0
     THEN Bullets(legalBasis.otherLaws.items) ELSE "" >>

\* the four lines under FUNDAMENTACAO LEGAL
LegalBasisLines(legalBasis) ==
  << IF legalBasis.lei13146
     THEN "- Lei no 13.146/2015 (Lei Brasileira de Inclusao da Pessoa com Deficiencia)"
     ELSE "",
     IF legalBasis.decreto3298
     THEN "- Decreto no 3.298/1999 (Regulamenta a Lei no 7.853/1989)" ELSE "",
     IF legalBasis.cif
     THEN "- Classificacao Internacional de Funcionalidade, Incapacidade e Saude (CIF/OMS)"
     ELSE "",
     IF legalBasis.otherLaws.isList /\ Len(legalBasis.otherLaws.items) > 0
     THEN Bullets(legalBasis.otherLaws.items) ELSE "" >>

\* the lines of the template literal, placeholders substituted
TemplateLines(d, laudoId, currentDate) ==
  << "LAUDO CARACTERIZADOR DE PESSOA COM DEFICIENCIA",
     "===============================================",
     "",
     "IDENTIFICACAO DO LAUDO",
     "Numero do Laudo: " \o laudoId,
     "Data de Emissao: " \o currentDate,
     "Validade: 2 anos a partir da data de emissao",
     "",
     "DADOS DO AVALIADO",
     "Nome Completo: " \o d.candidateInfo.fullName,
     "CPF: " \o d.candidateInfo.cpf,
     OptionalLine("RG: ", d.candidateInfo.rg),
     "Data de Nascimento: " \o d.candidateInfo.birthDate,
     OptionalLine("Endereco: ", d.candidateInfo.address),
     OptionalLine("Telefone: ", d.candidateInfo.phone),
     OptionalLine("Email: ", d.candidateInfo.email),
     "",
     "INFORMACOES MEDICAS",
     "Tipo de Deficiencia: " \o d.medicalInfo.deficiencyType,
     "Diagnostico Principal: " \o d.medicalInfo.diagnosis,
     "CID-10: " \o d.medicalInfo.cidCode,
     OptionalLine("CIF: ", d.medicalInfo.cifCode),
     OptionalLine("Data de Inicio: ", d.medicalInfo.onsetDate),
     "Prognostico: " \o d.medicalInfo.prognosis,
     "Grau da Deficiencia: " \o d.medicalInfo.severityLevel,
     "",
     "AVALIACAO FUNCIONAL",
     "",
     "Limitacoes Funcionais Identificadas:",
     Bullets(d.functionalAssessment.functionalLimitations),
     "",
     "Funcoes Preservadas:",
     Bullets(d.functionalAssessment.preservedFunctions),
     "",
     "Capacidade Adaptativa:",
     d.functionalAssessment.adaptiveCapacity,
     "",
     AssistiveTechnologyBlock(d.functionalAssessment.assistiveTechnology),
     "",
     "CONCLUSAO TECNICA",
     "Com base na avaliacao medica realizada e na analise da documentacao apresentada,",
     "ATESTO que " \o d.candidateInfo.fullName \o ", portador(a) do CPF "
       \o d.candidateInfo.cpf \o ",",
     "apresenta deficiencia do tipo " \o toLowerCase(d.medicalInfo.deficiencyType) \o ",",
     "enquadrando-se nos criterios estabelecidos pela legislacao brasileira para",
     "PESSOA COM DEFICIENCIA (PCD).",
     "",
     "O diagnostico de " \o d.medicalInfo.diagnosis \o " (CID-10: "
       \o d.medicalInfo.cidCode \o ")",
     "configura impedimento de longo prazo que, em interacao com diversas barreiras,",
     "pode obstruir a participacao plena e efetiva na sociedade em igualdade de",
     "condicoes com as demais pessoas.",
     "",
     "FUNDAMENTACAO LEGAL" >>
  \o LegalBasisLines(d.legalBasis) \o
  << "",
     "Este laudo tem validade de 2 (dois) anos a partir da data de emissao e",
     "foi elaborado de acordo com as normas tecnicas vigentes e criterios",
     "estabelecidos pela legislacao brasileira.",
     "",
     "RESPONSAVEL TECNICO",
     "Dr(a). " \o d.professionalInfo.doctorName,
     "CRM: " \o d.professionalInfo.crm,
     "Especialidade: " \o d.professionalInfo.specialization,
     "",
     "_________________________________",
     "Assinatura e Carimbo",
     "",
     "Data: " \o currentDate,
     "Local: Sao Paulo/SP",
     "",
     "===============================================",
     "Este documento possui validade legal e foi emitido em conformidade",
     "com a legislacao brasileira vigente sobre pessoas com deficiencia." >>

\* the template literal, which opens and closes with a line break, trimmed
fullDocument(d, laudoId, currentDate) ==
  trim("\n" \o JoinLines(TemplateLines(d, laudoId, currentDate)) \o "\n")

summary(d) ==
  "Laudo Caracterizador emitido para " \o d.candidateInfo.fullName
    \o " confirmando enquadramento como PCD tipo " \o d.medicalInfo.deficiencyType
    \o " com base no diagnostico " \o d.medicalInfo.diagnosis
    \o " (" \o d.medicalInfo.cidCode \o "). Deficiencia classificada como "
    \o d.medicalInfo.severityLevel \o " com prognostico " \o d.medicalInfo.prognosis
    \o ". Documento valido por 2 anos."

\* Faulty variant: a multiple deficiency takes the restrictions of a physical one.
workRestrictions_MultiplaAsFisica(deficiencyType) ==
  IF deficiencyType \in {"FISICA", "MULTIPLA"} THEN
    <<"Atividades que exijam grande esforco fisico",
      "Trabalhos em altura sem adaptacoes adequadas">>
  ELSE IF deficiencyType = "VISUAL" THEN
    <<"Atividades que dependam exclusivamente da visao",
      "Conducao de veiculos sem adaptacoes">>
  ELSE IF deficiencyType = "AUDITIVA" THEN
    <<"Ambientes com exigencia de comunicacao oral sem adaptacoes">>
  ELSE <<>>

\* Generate work restrictions based on deficiency type
workRestrictions(deficiencyType) ==
  IF deficiencyType = "FISICA" THEN
    <<"Atividades que exijam grande esforco fisico",
      "Trabalhos em altura sem adaptacoes adequadas">>
  ELSE IF deficiencyType = "VISUAL" THEN
    <<"Atividades que dependam exclusivamente da visao",
      "Conducao de veiculos sem adaptacoes">>
  ELSE IF deficiencyType = "AUDITIVA" THEN
    <<"Ambientes com exigencia de comunicacao oral sem adaptacoes">>
  ELSE <<>>

\* Faulty variant: the signed text starts with the cpf.
LaudoResult_CpfSignedFirst(d, now) ==
  LET laudoId == "LAUDO-PCD-" \o now[1].ms \o "-" \o DigitsOnly(d.candidateInfo.cpf)
      currentDate == toLocaleDateString(now[2])
      currentDateTime == toLocaleString(now[3])
      validityDate == setFullYear(now[4], now[4].year + 2)
  IN [laudoId |-> laudoId,
      fullDocument |-> fullDocument(d, laudoId, currentDate),
      summary |-> summary(d),
      validityPeriod |-> currentDate \o " ate " \o toLocaleDateString(validityDate),
      digitalSignature |->
        "SHA256-" \o Substring0(Base64(d.candidateInfo.cpf \o laudoId \o currentDateTime), 16),
      issuedAt |-> currentDateTime,
      classification |->
        [pcdStatus |-> TRUE,
         quotaEligible |-> TRUE,
         workRestrictions |-> workRestrictions(d.medicalInfo.deficiencyType)]]

\* the object returned at the end of the try block; now holds the instants
\* read by Date.now() (line 83) and by new Date() (lines 84, 85 and 177)
LaudoResult(d, now) ==
  LET laudoId == "LAUDO-PCD-" \o now[1].ms \o "-" \o DigitsOnly(d.candidateInfo.cpf)
      currentDate == toLocaleDateString(now[2])
      currentDateTime == toLocaleString(now[3])
      validityDate == setFullYear(now[4], now[4].year + 2)
  IN [laudoId |-> laudoId,
      fullDocument |-> fullDocument(d, laudoId, currentDate),
      summary |-> summary(d),
      validityPeriod |-> currentDate \o " ate " \o toLocaleDateString(validityDate),
      digitalSignature |->
        "SHA256-" \o Substring0(Base64(laudoId \o d.candidateInfo.cpf \o currentDateTime), 16),
      issuedAt |-> currentDateTime,
      classification |->
        [pcdStatus |-> TRUE,
         quotaEligible |-> TRUE,
         workRestrictions |-> workRestrictions(d.medicalInfo.deficiencyType)]]

\* Faulty variant: the invalid report still counts towards the quota.
LaudoErrorResult_QuotaEligible(now) ==
  [laudoId |-> "ERROR-" \o now[2].ms,
   fullDocument |->
     "ERRO: Nao foi possivel gerar o laudo. Favor revisar os dados fornecidos.",
   summary |-> "Erro na geracao do laudo caracterizador",
   validityPeriod |-> "Invalido",
   digitalSignature |-> "INVALID",
   issuedAt |-> toLocaleString(now[3]),
   classification |->
     [pcdStatus |-> FALSE,
      quotaEligible |-> TRUE,
      workRestrictions |-> <<"Documento invalido devido a erro de geracao">>]]

\* the object returned by the catch block.  The throw follows the read of
\* Date.now() on line 83, so the catch block reads the second and the third
\* instant.
LaudoErrorResult(now) ==
  [laudoId |-> "ERROR-" \o now[2].ms,
   fullDocument |->
     "ERRO: Nao foi possivel gerar o laudo. Favor revisar os dados fornecidos.",
   summary |-> "Erro na geracao do laudo caracterizador",
   validityPeriod |-> "Invalido",
   digitalSignature |-> "INVALID",
   issuedAt |-> toLocaleString(now[3]),
   classification |->
     [pcdStatus |-> FALSE,
      quotaEligible |-> FALSE,
      workRestrictions |-> <<"Documento invalido devido a erro de geracao">>]]

\* candidateInfo.cpf.replace(...) throws a TypeError when the dossier reaches
\* execute without a cpf
LaudoThrows(d) == d.candidateInfo.cpf = NoValue

\* the instants of a timeline that a call reads
InstantsRead(timeline, clock) == [i \in DOMAIN clock |-> timeline[clock[i]]]

\* execute of generateLaudoCaracterizador
generateLaudoExecute(d, now) ==
  IF LaudoThrows(d) THEN LaudoErrorResult(now) ELSE LaudoResult(d, now)

(***************************************************************************)
(* Inputs of generateLaudoCaracterizador                                   *)
(***************************************************************************)
MaxAbsent == 1   \* optional dossier fields left out together
MaxTicks == 1    \* instants by which the clock advances during one call
MaxCalls == 2    \* reports issued one after the other

\* instants of the local clock (America/Sao_Paulo), in increasing order:
\* two pairs of instants one millisecond apart.  burst numbers the pairs;
\* one call runs within a burst, successive calls may be far apart.
Timeline ==
  << [ms |-> "1793514540000", year |-> 2026, month |-> 11, day |-> 1,
      hour |-> 3, minute |-> 29, second |-> 0, burst |-> 1],
     [ms |-> "1793514540001", year |-> 2026, month |-> 11, day |-> 1,
      hour |-> 3, minute |-> 29, second |-> 0, burst |-> 1],
     [ms |-> "1835492399999", year |-> 2028, month |-> 2, day |-> 29,
      hour |-> 23, minute |-> 59, second |-> 59, burst |-> 2],
     [ms |-> "1835492400000", year |-> 2028, month |-> 3, day |-> 1,
      hour |-> 0, minute |-> 0, second |-> 0, burst |-> 2] >>

\* the four reads of one call: positions in Timeline that never go back,
\* advance by at most MaxTicks and stay within one burst
ClockReadings ==
  {c \in [1..4 -> 1..Len(Timeline)] :
     /\ \A i \in 1..3 : c[i] <= c[i + 1]
     /\ c[4] - c[1] <= MaxTicks
     /\ Timeline[c[1]].burst = Timeline[c[4]].burst}

OptionalFields ==
  {"rg", "address", "phone", "email", "cifCode", "onsetDate", "otherLaws",
   "assistiveTechnology"}

\* the sets of optional fields left out: at most MaxAbsent of them, or all
AbsentSets ==
  {a \in SUBSET OptionalFields : Cardinality(a) <= MaxAbsent} \cup {OptionalFields}

LaudoDeficiencyTypes ==
  {"FISICA", "INTELECTUAL", "AUDITIVA", "VISUAL", "MULTIPLA", "PSICOSSOCIAL"}

LegalBasisFlags ==
  {[lei13146 |-> TRUE, decreto3298 |-> TRUE, cif |-> TRUE],
   [lei13146 |-> TRUE, decreto3298 |-> FALSE, cif |-> TRUE],
   [lei13146 |-> FALSE, decreto3298 |-> FALSE, cif |-> FALSE]}

Cpfs == {"123.456.789-00", "12345678900", "987.654.321-00"}

\* a dossier: the optional fields in absent are left out (undefined, or the
\* empty string or list when blank), the others filled in
Dossier(absent, blank, deficiencyType, flags, cpf) ==
  LET Opt(name, v) == IF name \in absent THEN (IF blank THEN "" ELSE NoValue) ELSE v
  IN [candidateInfo |->
        [fullName |-> "Maria da Silva",
         cpf |-> cpf,
         rg |-> Opt("rg", "12.345.678-9"),
         birthDate |-> "15/03/1990",
         address |-> Opt("address", "Rua das Flores, 100"),
         phone |-> Opt("phone", "(11) 99999-0000"),
         email |-> Opt("email", "maria@example.com")],
      medicalInfo |->
        [deficiencyType |-> deficiencyType,
         cidCode |-> "H90.3",
         cifCode |-> Opt("cifCode", "b230.3"),
         diagnosis |-> "Perda auditiva neurossensorial bilateral",
         onsetDate |-> Opt("onsetDate", "10/01/2015"),
         prognosis |-> "PERMANENTE",
         severityLevel |-> "MODERADA"],
      functionalAssessment |->
        [functionalLimitations |->
           <<"Dificuldade de comunicacao oral", "Dificuldade em ambientes ruidosos">>,
         preservedFunctions |-> <<"Mobilidade">>,
         adaptiveCapacity |-> "Boa adaptacao com recursos visuais",
         assistiveTechnology |->
           IF "assistiveTechnology" \in absent THEN <<>>
           ELSE <<"Aparelho auditivo", "Interprete de Libras">>],
      professionalInfo |->
        [doctorName |-> "Ana Souza",
         crm |-> "CRM-SP 123456",
         specialization |-> "Otorrinolaringologia",
         issueDate |-> "01/11/2026",
         expirationDate |-> NoValue],
      legalBasis |->
        [lei13146 |-> flags.lei13146,
         decreto3298 |-> flags.decreto3298,
         cif |-> flags.cif,
         otherLaws |->
           IF "otherLaws" \in absent
           THEN [isList |-> blank, items |-> <<>>]
           ELSE [isList |-> TRUE, items |-> <<"Lei no 8.213/1991">>]]]

Dossiers ==
  {Dossier(absent, blank, t, flags, "123.456.789-00") :
     absent \in AbsentSets, blank \in BOOLEAN, t \in LaudoDeficiencyTypes,
     flags \in LegalBasisFlags}

\* dossiers that differ in the cpf only; one of them reaches execute without it
CpfDossiers ==
  {Dossier({}, FALSE, "AUDITIVA",
           [lei13146 |-> TRUE, decreto3298 |-> TRUE, cif |-> TRUE], cpf) :
     cpf \in Cpfs \cup {NoValue}}

LaudoInputs ==
  {[dossier |-> d, clock |-> [i \in 1..4 |-> 1]] : d \in Dossiers}
  \cup {[dossier |-> d, clock |-> c] : d \in CpfDossiers, c \in ClockReadings}

(***************************************************************************)
(* State machine of generateLaudoCaracterizador                            *)
(***************************************************************************)
\* One call: the tool has been called with any of the bounded inputs.
InitLaudo ==
  /\ tool = "laudo"
  /\ input \in LaudoInputs
  /\ pc = "called"
  /\ output = <<>>
  /\ cursor = 0
  /\ seen = {}

\* generateLaudoCaracterizador runs to its return
GenerateLaudo ==
  /\ tool = "laudo" /\ pc = "called"
  /\ output' = generateLaudoExecute(input.dossier, InstantsRead(Timeline, input.clock))
  /\ pc' = "returned"
  /\ UNCHANGED <<tool, input, cursor, seen>>

NextLaudo == GenerateLaudo

SpecLaudo == InitLaudo /\ [][NextLaudo]_vars

\* Reports issued one after the other: cursor counts the calls made, seen
\* holds the id returned by each call.  The tool does not await, so a call
\* runs to its return before the next one starts, and the clock of a call
\* never starts before the last read of the call before it.
InitIssue ==
  /\ tool = "laudo"
  /\ pc = "idle"
  /\ input = [dossier |-> Dossier({}, FALSE, "AUDITIVA",
                            [lei13146 |-> TRUE, decreto3298 |-> TRUE, cif |-> TRUE],
                            "123.456.789-00"),
              clock |-> [i \in 1..4 |-> 1]]
  /\ output = <<>>
  /\ cursor = 0
  /\ seen = {}

IssueLaudo ==
  /\ cursor < MaxCalls
  /\ \E d \in CpfDossiers, c \in ClockReadings :
       /\ input.clock[4] <= c[1]
       /\ input' = [dossier |-> d, clock |-> c]
       /\ output' = generateLaudoExecute(d, InstantsRead(Timeline, c))
       /\ seen' = seen \cup
            {<<cursor + 1, generateLaudoExecute(d, InstantsRead(Timeline, c)).laudoId>>}
  /\ cursor' = cursor + 1
  /\ pc' = "returned"
  /\ UNCHANGED tool

NextIssue == IssueLaudo

SpecIssue == InitIssue /\ [][NextIssue]_vars

(***************************************************************************)
(* Properties of generateLaudoCaracterizador                               *)
(***************************************************************************)
LaudoReturned == tool = "laudo" /\ pc = "returned"

\* the call returned from the end of the try block
LaudoSucceeded == LaudoReturned /\ input.dossier.candidateInfo.cpf # NoValue

\* the line of an optional field that is filled in, with its line break
LineIfPresent(label, v) == IF v # NoValue /\ v # "" THEN label \o v \o "\n" ELSE ""

\* C16: when an optional dossier field (rg, address, phone, email, cifCode,
\* onsetDate, otherLaws, the assistive-technology list) is absent or empty,
\* its line is left out of the document: the line before it is followed
\* directly by the next line of the template, with no empty line between.
C16_AbsentFieldLineOmitted ==
  LaudoSucceeded =>
    LET d == input.dossier
        doc == output.fullDocument
    IN /\ includes(doc, "CPF: " \o d.candidateInfo.cpf \o "\n"
                          \o LineIfPresent("RG: ", d.candidateInfo.rg)
                          \o "Data de Nascimento: ")
       /\ includes(doc, "Data de Nascimento: " \o d.candidateInfo.birthDate \o "\n"
                          \o LineIfPresent("Endereco: ", d.candidateInfo.address)
                          \o LineIfPresent("Telefone: ", d.candidateInfo.phone)
                          \o LineIfPresent("Email: ", d.candidateInfo.email)
                          \o "\nINFORMACOES MEDICAS")
       /\ includes(doc, "CID-10: " \o d.medicalInfo.cidCode \o "\n"
                          \o LineIfPresent("CIF: ", d.medicalInfo.cifCode)
                          \o LineIfPresent("Data de Inicio: ", d.medicalInfo.onsetDate)
                          \o "Prognostico: ")
       /\ d.functionalAssessment.assistiveTechnology = <<>> =>
            includes(doc, d.functionalAssessment.adaptiveCapacity
                            \o "\n\n\nCONCLUSAO TECNICA")
       /\ (d.legalBasis.cif /\ d.legalBasis.otherLaws.items = <<>>) =>
            includes(doc, "(CIF/OMS)\n\nEste laudo tem validade")

\* the restrictions of each deficiency type
RestrictionTable ==
  [t \in LaudoDeficiencyTypes |->
     CASE t = "FISICA" -> <<"Atividades que exijam grande esforco fisico",
                            "Trabalhos em altura sem adaptacoes adequadas">>
       [] t = "VISUAL" -> <<"Atividades que dependam exclusivamente da visao",
                            "Conducao de veiculos sem adaptacoes">>
       [] t = "AUDITIVA" ->
            <<"Ambientes com exigencia de comunicacao oral sem adaptacoes">>
       [] OTHER -> <<>>]

\* C17: the workRestrictions of a report are the entries that a fixed table
\* gives for medicalInfo.deficiencyType (two for FISICA, two for VISUAL, one
\* for AUDITIVA, none for INTELECTUAL, MULTIPLA and PSICOSSOCIAL), whatever
\* the other fields of the dossier are.
C17_RestrictionsFromTypeOnly ==
  LaudoSucceeded =>
    LET t == input.dossier.medicalInfo.deficiencyType
        restrictions == output.classification.workRestrictions
    IN /\ restrictions = RestrictionTable[t]
       /\ Len(restrictions) =
            (IF t \in {"FISICA", "VISUAL"} THEN 2 ELSE IF t = "AUDITIVA" THEN 1 ELSE 0)

C17_Witness ==
  /\ LaudoSucceeded
  /\ input.dossier.medicalInfo.deficiencyType = "MULTIPLA"
  /\ input.dossier.candidateInfo.rg = NoValue
  /\ output.classification.workRestrictions = <<>>

\* an exception was raised inside the try block
LaudoThrew == LaudoReturned /\ input.dossier.candidateInfo.cpf = NoValue

StartsWith(s, prefix) ==
  Len(s) >= Len(prefix) /\ SubSeq(s, 1, Len(prefix)) = prefix

C19_LaudoIdsDiffer ==
  \A a, b \in seen : a[1] # b[1] => a[2] # b[2]

\* the start positions of p in s
Occurrences(s, p) ==
  {i \in 1..(Len(s) - Len(p) + 1) : SubSeq(s, i, i + Len(p) - 1) = p}

\* each text of texts occurs in s, and the first occurrences are in the
\* order of texts
OccurInOrder(s, texts) ==
  LET first == [k \in 1..Len(texts) |->
                  LET occ == Occurrences(s, texts[k])
                  IN IF occ = {} THEN 0
                     ELSE CHOOSE i \in occ : \A j \in occ : i <= j]
  IN /\ \A k \in 1..Len(texts) : first[k] > 0
     /\ \A k \in 1..(Len(texts) - 1) : first[k] < first[k + 1]

\* C20: in every successful report the seven section headers stand, each on
\* a line of its own, in the order IDENTIFICACAO DO LAUDO, DADOS DO AVALIADO,
\* INFORMACOES MEDICAS, AVALIACAO FUNCIONAL, CONCLUSAO TECNICA, FUNDAMENTACAO
\* LEGAL, RESPONSAVEL TECNICO, whichever optional fields are present; and
\* when the three legalBasis flags are true, the citation lines of Lei
\* 13.146/2015, Decreto 3.298/1999 and CIF/OMS stand in that order between
\* FUNDAMENTACAO LEGAL and RESPONSAVEL TECNICO.
C20_SectionsAndCitationsInOrder ==
  LaudoSucceeded =>
    /\ OccurInOrder(output.fullDocument,
         <<"\nIDENTIFICACAO DO LAUDO\n", "\nDADOS DO AVALIADO\n",
           "\nINFORMACOES MEDICAS\n", "\nAVALIACAO FUNCIONAL\n",
           "\nCONCLUSAO TECNICA\n", "\nFUNDAMENTACAO LEGAL\n",
           "\nRESPONSAVEL TECNICO\n">>)
    /\ (/\ input.dossier.legalBasis.lei13146
        /\ input.dossier.legalBasis.decreto3298
        /\ input.dossier.legalBasis.cif) =>
         OccurInOrder(output.fullDocument,
           <<"\nFUNDAMENTACAO LEGAL\n", "\n- Lei no 13.146/2015 ",
             "\n- Decreto no 3.298/1999 ", "(CIF/OMS)\n",
             "\nRESPONSAVEL TECNICO\n">>)

C20_Witness ==
  /\ LaudoSucceeded
  /\ input.dossier.candidateInfo.rg = NoValue
  /\ input.dossier.candidateInfo.email = NoValue
  /\ input.dossier.legalBasis.lei13146 /\ input.dossier.legalBasis.decreto3298
  /\ input.dossier.legalBasis.cif
  /\ includes(output.fullDocument, "\n- Decreto no 3.298/1999 ")

\* the number written by a string of decimal digits
RECURSIVE ParseNat(_)
ParseNat(s) ==
  IF s = "" THEN 0
  ELSE 10 * ParseNat(SubSeq(s, 1, Len(s) - 1))
         + ((CHOOSE i \in 1..10 : CharAt("0123456789", i) = CharAt(s, Len(s))) - 1)

\* validityPeriod reads '<start> ate <end>', both dates as dd/mm/yyyy
ValidityStart == SubSeq(output.validityPeriod, 1, 10)
ValidityEnd == SubSeq(output.validityPeriod, 16, 25)

ValidityWellFormed ==
  /\ Len(output.validityPeriod) = 25
  /\ SubSeq(output.validityPeriod, 11, 15) = " ate "

\* the instants read by lines 84 (currentDate), 85 (currentDateTime) and 177
\* (validityDate) of the call
DateRead == Timeline[input.clock[2]]
DateTimeRead == Timeline[input.clock[3]]
ValidityRead == Timeline[input.clock[4]]

SameDay(t, u) == t.day = u.day /\ t.month = u.month /\ t.year = u.year

\* C21 as stated: in every successful report validityPeriod starts at the
\* date printed as 'Data de Emissao', which is also the date part of
\* issuedAt, and ends on the same day and month two years later, at whatever
\* instant the report is generated.
C21_ValidityIsIssueDatePlusTwoYears ==
  LaudoSucceeded =>
    /\ ValidityWellFormed
    /\ includes(output.fullDocument, "\nData de Emissao: " \o ValidityStart \o "\n")
    /\ ValidityStart = SubSeq(output.issuedAt, 1, 10)
    /\ SubSeq(ValidityEnd, 1, 6) = SubSeq(ValidityStart, 1, 6)
    /\ ParseNat(SubSeq(ValidityEnd, 7, 10)) = ParseNat(SubSeq(ValidityStart, 7, 10)) + 2

\* C21 amended: validityPeriod starts at the date printed as 'Data de
\* Emissao', the local date of the clock read of line 84.  Its end is the
\* local date of the clock read of line 177 with the year increased by 2,
\* where 29 February becomes 1 March; the date part of issuedAt is the local
\* date of the clock read of line 85.  So the start equals the date part of
\* issuedAt when no midnight passes between the reads of lines 84 and 85,
\* and the end is the start's day and month two years later when no
\* midnight passes between the reads of lines 84 and 177 and the day is not
\* 29 February.
C21_ValidityFollowsClockReads ==
  LaudoSucceeded =>
    /\ ValidityWellFormed
    /\ includes(output.fullDocument, "\nData de Emissao: " \o ValidityStart \o "\n")
    /\ ValidityStart = Pad2(DateRead.day) \o "/" \o Pad2(DateRead.month) \o "/"
                         \o NatToString(DateRead.year)
    /\ SubSeq(output.issuedAt, 1, 10)
         = Pad2(DateTimeRead.day) \o "/" \o Pad2(DateTimeRead.month) \o "/"
             \o NatToString(DateTimeRead.year)
    /\ ValidityEnd =
         (IF ValidityRead.day = 29 /\ ValidityRead.month = 2
          THEN "01/03/"
          ELSE Pad2(ValidityRead.day) \o "/" \o Pad2(ValidityRead.month) \o "/")
           \o NatToString(ValidityRead.year + 2)
    /\ SameDay(DateRead, DateTimeRead) => ValidityStart = SubSeq(output.issuedAt, 1, 10)
    /\ (SameDay(DateRead, ValidityRead)
          /\ ~(ValidityRead.day = 29 /\ ValidityRead.month = 2)) =>
         /\ SubSeq(ValidityEnd, 1, 6) = SubSeq(ValidityStart, 1, 6)
         /\ ParseNat(SubSeq(ValidityEnd, 7, 10))
              = ParseNat(SubSeq(ValidityStart, 7, 10)) + 2

C21_Witness ==
  /\ LaudoSucceeded
  /\ input.clock = <<3, 3, 3, 3>>
  /\ output.validityPeriod = "29/02/2028 ate 01/03/2030"

(***************************************************************************)
(* The document loop of evaluatePCDEligibility                             *)
(***************************************************************************)
\* the findings of the rules that match one content, in rule order
FindingsOfContent(content) ==
  LET matching == SelectSeq(EvalRuleOrder, LAMBDA t : EvalRuleMatches(t, content))
  IN [k \in 1..Len(matching) |-> EvalRuleFinding(matching[k])]

\* one finding per (document, matching rule) pair, in document order
RECURSIVE FindingsOfDocsFrom(_, _)
FindingsOfDocsFrom(docs, i) ==
  IF i > Len(docs) THEN <<>>
  ELSE FindingsOfContent(toLowerCase(docs[i].content)) \o FindingsOfDocsFrom(docs, i + 1)

\* the documents that match some rule
MatchingDocs(docs) ==
  {i \in 1..Len(docs) :
     \E t \in Range(EvalRuleOrder) : EvalRuleMatches(t, toLowerCase(docs[i].content))}

\* the type of the last matching rule of the last document that matches
LastTypeOfDocs(docs) ==
  LET i == CHOOSE m \in MatchingDocs(docs) : \A n \in MatchingDocs(docs) : n <= m
      content == toLowerCase(docs[i].content)
      hits == {k \in 1..Len(EvalRuleOrder) : EvalRuleMatches(EvalRuleOrder[k], content)}
  IN EvalRuleOrder[CHOOSE k \in hits : \A l \in hits : l <= k]

\* C22: in every non-error result of evaluatePCDEligibility, deficiencyType
\* is set iff functionalLimitations is non-empty; functionalLimitations holds
\* one finding per (document, matching rule) pair in document order, and
\* deficiencyType is the type of the last matching rule (order FISICA,
\* INTELECTUAL, AUDITIVA, VISUAL) of the last document that matches a rule.
C22_TypeIffFindings ==
  (EvaluationReturned /\ ~EvaluationThrew) =>
    LET docs == input.documentationProvided
    IN /\ output.deficiencyType # NoValue <=> output.functionalLimitations # <<>>
       /\ output.functionalLimitations = FindingsOfDocsFrom(docs, 1)
       /\ output.deficiencyType =
            (IF MatchingDocs(docs) = {} THEN NoValue ELSE LastTypeOfDocs(docs))

C22_Witness ==
  /\ EvaluationReturned /\ ~EvaluationThrew
  /\ Len(input.documentationProvided) = 2
  /\ input.documentationProvided[1].content = "Cegueira e déficit cognitivo"
  /\ input.documentationProvided[2].content = "Paciente com SURDEZ bilateral"
  /\ output.deficiencyType = "AUDITIVA"
  /\ output.functionalLimitations =
       <<"Limitações cognitivas identificadas", "Limitações visuais identificadas",
         "Limitações auditivas identificadas">>

(***************************************************************************)
(* The signature of successive reports                                     *)
(***************************************************************************)
\* a report of the try block
IsSuccessfulReport(report) ==
  /\ report # <<>>
  /\ SubSeq(report.laudoId, 1, 10) = "LAUDO-PCD-"

\* C23: the digitalSignature of a successful report is 'SHA256-' followed by
\* the 16 base64 characters that encode the first 12 characters of its
\* laudoId ('LAUDO-PCD-' and the first two digits of the millisecond clock),
\* so a successful report issued after another one whose clock value starts
\* with the same two digits carries the same digitalSignature, whatever the
\* CPFs, the candidates and the issuance timestamps of the two.
C23_SignatureOfClockPrefix ==
  [][(IssueLaudo /\ IsSuccessfulReport(output')) =>
       /\ Len(output'.digitalSignature) = 23
       /\ output'.digitalSignature
            = "SHA256-" \o Base64(SubSeq(output'.laudoId, 1, 12))
       /\ SubSeq(output'.laudoId, 11, 12)
            = SubSeq(Timeline[input'.clock[1]].ms, 1, 2)
       /\ (/\ IsSuccessfulReport(output)
           /\ SubSeq(Timeline[input.clock[1]].ms, 1, 2)
                = SubSeq(Timeline[input'.clock[1]].ms, 1, 2)) =>
            output'.digitalSignature = output.digitalSignature]_vars

C23_Witness ==
  /\ cursor = 2
  /\ IsSuccessfulReport(output)
  /\ input.dossier.candidateInfo.cpf = "123.456.789-00"
  /\ input.clock = <<2, 2, 2, 2>>
  /\ <<1, "LAUDO-PCD-1793514540000-98765432100">> \in seen
  /\ output.digitalSignature = "SHA256-TEFVRE8tUENELTE3"

====
